---- MODULE Spec2Model ----
(***************************************************************************)
(* A model of the seltask browser test suite: the page objects             *)
(* (TwitchHomePage, TwitchSearchPage, TwitchStreamPage over BasePage), the  *)
(* test functions that drive them and the pytest fixtures around them.     *)
(* Strings are sequences of one-character strings, so that the string      *)
(* operations of the source (split, startswith, in, lower, lstrip) are      *)
(* computed, not assumed.                                                   *)
(***************************************************************************)
EXTENDS Integers, Sequences, FiniteSets, TLC

VARIABLES
    path,      \* SpecPath: the argument handed to _is_valid_channel_path
    verdict,   \* SpecPath: "unchecked", or the value _is_valid_channel_path returned
    test,      \* index in Tests of the test function being run
    pc,        \* position of the run inside the current test
    exc,       \* the exception that ended the current test's call, or "none"
    inp,       \* what the browser answered to the operation that ran last
    cands,     \* select_streamer: the list get_streamer_elements returned
    fromLoc,   \* select_streamer: the locator (1..4) that list came from, 0 if none
    chosen,    \* select_streamer: streamers[index], or "none"
    url,       \* driver.current_url
    clicks,    \* the clicks performed in the current test, in order
    shots,     \* the screenshots captured in the current test, in order
    warns,     \* the warnings printed in the current test
    probes,    \* the modal locators handle_modals probed, in order
    trace,     \* the operations of the current test that started, with their outcome
    finished,  \* the tests that are over: their outcome and teardown screenshot
    acts,      \* what the operation that ran last did to the page, step by step
    docv,      \* the document in the browser, counted within a test: one more per navigation
    queriedAt, \* select_streamer: the document version its candidates were queried on
    instance,  \* DriverFactory._instance: 0 for None, or the number of a driver
    drivers,   \* the drivers created so far: who created each, how often it was quit
    driver,    \* the value of the session fixture `driver`: 0 before its setup
    calls,     \* SpecFactory: the calls made on DriverFactory, with what they returned
    ret        \* SpecExtract, SpecModal: "unset", or what the call under study came to

vars == <<path, verdict, test, pc, exc, inp, cands, fromLoc, chosen, url,
          clicks, shots, warns, probes, trace, finished,
          acts, docv, queriedAt, instance, drivers, driver, calls, ret>>

flowVars == <<test, pc, exc, inp, cands, fromLoc, chosen, url,
              clicks, shots, warns, probes, trace, finished, acts, docv, queriedAt>>

\* The driver factory and the session fixture around it.
factoryVars == <<instance, drivers, driver, calls>>

\* What the steps of a test never touch.
unitVars == <<path, verdict, instance, drivers, driver, calls, ret>>

----------------------------------------------------------------------------
(* Bounds of the model.                                                    *)

\* The longest channel name (characters after the leading slash) of a path input.
MaxName == 31

----------------------------------------------------------------------------
(* Python string operations on sequences of characters.                    *)

\* The first index at which p occurs in s, 0 when it does not (str.find + 1).
Find(s, p) ==
    LET hits == {i \in 1..(Len(s) - Len(p) + 1) : SubSeq(s, i, i + Len(p) - 1) = p}
    IN  IF hits = {} THEN 0 ELSE CHOOSE i \in hits : \A j \in hits : i <= j

\* p in s
Contains(s, p) == Find(s, p) # 0

\* s.startswith(p)
StartsWith(s, p) == Len(s) >= Len(p) /\ SubSeq(s, 1, Len(p)) = p

RECURSIVE Split(_, _)
\* s.split(p): the pieces of s between the occurrences of p, left to right.
Split(s, p) ==
    LET i == Find(s, p)
    IN  IF i = 0
        THEN <<s>>
        ELSE <<SubSeq(s, 1, i - 1)>> \o Split(SubSeq(s, i + Len(p), Len(s)), p)

\* pieces[-1]
Last(pieces) == pieces[Len(pieces)]

RECURSIVE LStrip(_, _)
\* s.lstrip(c) for a single character c
LStrip(s, c) == IF s # <<>> /\ Head(s) = c THEN LStrip(Tail(s), c) ELSE s

Uppers == <<"A","B","C","D","E","F","G","H","I","J","K","L","M",
            "N","O","P","Q","R","S","T","U","V","W","X","Y","Z">>

Lowers == <<"a","b","c","d","e","f","g","h","i","j","k","l","m",
            "n","o","p","q","r","s","t","u","v","w","x","y","z">>

\* c.lower() for one character
LowerChar(c) ==
    IF \E i \in 1..Len(Uppers) : Uppers[i] = c
    THEN Lowers[CHOOSE i \in 1..Len(Uppers) : Uppers[i] = c]
    ELSE c

\* s.lower()
Lower(s) == [i \in 1..Len(s) |-> LowerChar(s[i])]

----------------------------------------------------------------------------
(* TwitchSearchPage._is_valid_channel_path                                 *)

MinPathLen == 2

MaxPathLen == 30

\* The mutant: the upper length check off by one (>= 30 in place of > 30).
IsValidChannelPathTight(p) ==
    IF p = <<>> \/ p = <<"/">>
    THEN FALSE
    ELSE LET clean_path == Split(Split(p, <<"?">>)[1], <<"#">>)[1]
         IN  ~(Len(clean_path) < MinPathLen \/ Len(clean_path) >= MaxPathLen)

IsValidChannelPath(p) ==
    IF p = <<>> \/ p = <<"/">>
    THEN FALSE
    ELSE LET clean_path == Split(Split(p, <<"?">>)[1], <<"#">>)[1]
         IN  ~(Len(clean_path) < MinPathLen \/ Len(clean_path) > MaxPathLen)

----------------------------------------------------------------------------
(* The document: the elements a search-results page may hold and what the  *)
(* browser answers about each (is_displayed, get_attribute, text,          *)
(* find_elements below it).  An empty href stands for a missing one: the   *)
(* source tests it with "if href".                                         *)

\* The most elements the locators of one page match, all locators together.
MaxElems == 3

TWITCH_TV == <<"t","w","i","t","c","h",".","t","v">>

LIVE_USER == <<"l","i","v","e","_","u","s","e","r","_">>

GAME_NAME == <<"S","t","a","r","C","r","a","f","t"," ","I","I">>

BASE_URL == <<"h","t","t","p","s",":","/","/","w","w","w",".","t","w","i","t","c","h",".","t","v">>

CdnPrefix == <<"h","t","t","p","s",":","/","/","c","d","n",".","n","e","t","/">>

\* The elements the locators LIVE_CHANNEL_CARDS, CHANNEL_CARDS and
\* STREAMER_LINKS may match, and the ancestors of the images.
Links == {"aGood", "aRel", "aHidden", "aRoot", "aDota", "aForeign", "aStale"}

Buttons == {"bCard", "bDota"}

\* The images the locator SEARCH_RESULT_CARDS may match.
Images == {"imgCard", "imgCard2", "imgLink", "imgHidden", "imgBad", "imgStale"}

\* WebElement.is_displayed()
Displayed(e) == e \notin {"aHidden", "imgHidden"}

\* Whether a call on the element raises StaleElementReferenceException.
Stale(e) == e \in {"aStale", "imgStale"}

\* WebElement.get_attribute('href')
Href(e) ==
    CASE e = "aGood" -> BASE_URL \o <<"/","a","b">>
      [] e = "aRel" -> <<"/","c","d","?","x","=","1","#","y">>
      [] e = "aHidden" -> BASE_URL \o <<"/","e","f">>
      [] e = "aRoot" -> BASE_URL \o <<"/">>
      [] e = "aDota" -> BASE_URL \o <<"/","g","h">>
      [] e = "aForeign" -> <<"h","t","t","p","s",":","/","/","x",".","i","o","/","a","b">>
      [] e = "aStale" -> BASE_URL \o <<"/","i","j">>
      [] OTHER -> <<>>

\* WebElement.text: the rendered text of the element
Text(e) ==
    CASE e \in {"aGood", "aHidden", "aRoot", "aForeign", "aStale"} -> <<"L","I","V","E"," ","S","T","A","R","C","R","A","F","T"," ","I","I">>
      [] e = "bCard" -> <<"k","l"," ","S","t","a","r","C","r","a","f","t"," ","I","I">>
      [] e \in {"aDota", "bDota"} -> <<"D","o","t","a"," ","2">>
      [] OTHER -> <<>>

\* The text nodes below the element that the XPath .//*[contains(text(), ...)]
\* inspects; they need not be rendered.
DescendantTexts(e) ==
    CASE e = "aRel" -> <<<<"S","t","a","r","C","r","a","f","t"," ","I","I">>>>
      [] e \in {"aDota", "bDota"} -> <<<<"s","t","a","r","c","r","a","f","t"," ","i","i">>>>
      [] OTHER -> <<>>

\* The src of each img[src*='live_user_'] below the element, in document order.
ImgSrcs(e) ==
    CASE e = "bCard" -> <<CdnPrefix \o LIVE_USER \o <<"k","l","-","4","4","0","x","2","4","8",".","j","p","g">>,
                          CdnPrefix \o LIVE_USER \o <<"z","z","-","4","4","0","x","2","4","8",".","j","p","g">>>>
      [] e = "bDota" -> <<CdnPrefix \o LIVE_USER \o <<"m","n",".","j","p","g">>>>
      [] e = "aGood" -> <<CdnPrefix \o LIVE_USER \o <<"a","b","-","4","4","0","x","2","4","8",".","j","p","g">>>>
      [] OTHER -> <<>>

\* img.find_element(By.XPATH, "./ancestor::button | ./ancestor::a")
Parent(img) ==
    CASE img \in {"imgCard", "imgCard2", "imgHidden", "imgStale"} -> "bCard"
      [] img = "imgLink" -> "aGood"
      [] img = "imgBad" -> "bDota"

\* The sequences over S of length k without repeats: find_elements lists an
\* element once.
InjSeqs(S, k) == {q \in [1..k -> S] : \A i, j \in 1..k : i # j => q[i] # q[j]}

\* The four locators of get_streamer_elements, in the order it tries them:
\* SEARCH_RESULT_CARDS, LIVE_CHANNEL_CARDS, CHANNEL_CARDS, STREAMER_LINKS.
Locators == 1..4

LocatorName(l) ==
    CASE l = 1 -> "SEARCH_RESULT_CARDS"
      [] l = 2 -> "LIVE_CHANNEL_CARDS"
      [] l = 3 -> "CHANNEL_CARDS"
      [] l = 4 -> "STREAMER_LINKS"

\* The lists find_elements can answer for a link locator, by length.
LinkSeqs == [k \in 0..MaxElems |-> InjSeqs(Links, k)]

\* The lists find_elements can answer for SEARCH_RESULT_CARDS, by length.
ImageSeqs == [k \in 0..MaxElems |-> InjSeqs(Images, k)]

\* What driver.find_elements answers for each locator: the pages of the model,
\* with at most MaxElems matches over the four locators.
Pages ==
    UNION {ImageSeqs[n[1]] \X LinkSeqs[n[2]] \X LinkSeqs[n[3]] \X LinkSeqs[n[4]] :
           n \in {m \in [Locators -> 0..MaxElems] : m[1] + m[2] + m[3] + m[4] <= MaxElems}}

----------------------------------------------------------------------------
(* The log of what an operation does to the page.                          *)

\* One thing an operation did to the page: what, to which locator or element,
\* whether it went through, and on which document (0: the one the operation
\* started on, 1: the one its click led to).
Act(act, el, ok) == [act |-> act, el |-> el, ok |-> ok, doc |-> 0]

\* The document version d written into the steps an operation took.
Stamp(as, d) == [i \in DOMAIN as |-> [as[i] EXCEPT !.doc = @ + d]]

----------------------------------------------------------------------------
(* TwitchSearchPage: the candidate filter and the locator chain.           *)

\* BasePage.find_elements: the wait for presence times out when nothing matches.
FindElements(page, l) ==
    [exc |-> IF page[l] = <<>> THEN "TimeoutException" ELSE "none", elems |-> page[l]]

\* The call of _extract_channel_from_element that raises, if any: the read of
\* href, the look-up of the images, the read of the first image's src.
Faults == {"none", "href", "imgs", "src"}

\* The mutant: any href is taken for a path, with what follows twitch.tv.
ExtractChannelAnyHref(href, imgs, fault) ==
    IF fault = "href"
    THEN [exc |-> "StaleElementReferenceException", ret |-> <<>>]
    ELSE IF href # <<>> /\ StartsWith(href, <<"/">>)
    THEN [exc |-> "none", ret |-> href]
    ELSE IF href # <<>>
    THEN [exc |-> "none", ret |-> Last(Split(href, TWITCH_TV))]
    ELSE IF fault \in {"imgs", "src"}
    THEN [exc |-> "none", ret |-> <<>>]
    ELSE IF imgs # <<>> /\ Contains(imgs[1], LIVE_USER)
    THEN [exc |-> "none",
          ret |-> <<"/">> \o Split(Split(Split(imgs[1], LIVE_USER)[2], <<"-">>)[1], <<".">>)[1]]
    ELSE [exc |-> "none", ret |-> <<>>]

\* TwitchSearchPage._extract_channel_from_element on an element whose href is
\* `href` (<<>> for None) and whose images with live_user_ in the src have the
\* sources `imgs`.  The read of href is outside the try block; what the try
\* block raises is passed over.
ExtractChannel(href, imgs, fault) ==
    IF fault = "href"
    THEN [exc |-> "StaleElementReferenceException", ret |-> <<>>]
    ELSE IF href # <<>> /\ StartsWith(href, <<"/">>)
    THEN [exc |-> "none", ret |-> href]
    ELSE IF href # <<>> /\ Contains(href, TWITCH_TV)
    THEN [exc |-> "none", ret |-> Last(Split(href, TWITCH_TV))]
    ELSE IF fault \in {"imgs", "src"}
    THEN [exc |-> "none", ret |-> <<>>]
    ELSE IF imgs # <<>> /\ Contains(imgs[1], LIVE_USER)
    THEN [exc |-> "none",
          ret |-> <<"/">> \o Split(Split(Split(imgs[1], LIVE_USER)[2], <<"-">>)[1], <<".">>)[1]]
    ELSE [exc |-> "none", ret |-> <<>>]

\* TwitchSearchPage._extract_channel_from_element, of an element that is attached.
ExtractChannelFromElement(e) == ExtractChannel(Href(e), ImgSrcs(e), "none").ret

\* TwitchSearchPage._is_streaming_game: any error inside it counts as False.
IsStreamingGame(e, game_name) ==
    IF Stale(e)
    THEN FALSE
    ELSE IF Contains(Lower(Text(e)), Lower(game_name))
    THEN TRUE
    ELSE \E i \in 1..Len(DescendantTexts(e)) : Contains(DescendantTexts(e)[i], game_name)

\* What examining one locator's matches comes to: it raised (the except clause
\* moves on to the next locator), or it went through and accepted `valid`.
Raised == [raised |-> TRUE, valid |-> <<>>]

RECURSIVE CardsLoop(_, _, _)
\* The loop of get_streamer_elements over the SEARCH_RESULT_CARDS images.
CardsLoop(imgs, i, valid) ==
    IF i > Len(imgs)
    THEN [raised |-> FALSE, valid |-> valid]
    ELSE IF Stale(imgs[i])
    THEN Raised
    ELSE IF Displayed(imgs[i])
    THEN LET parent == Parent(imgs[i])
             channel_path == ExtractChannelFromElement(parent)
         IN  IF IsValidChannelPath(channel_path) /\ IsStreamingGame(parent, GAME_NAME)
             THEN CardsLoop(imgs, i + 1, Append(valid, parent))
             ELSE CardsLoop(imgs, i + 1, valid)
    ELSE CardsLoop(imgs, i + 1, valid)

\* The path the link loops of get_streamer_elements take from an href; <<>>
\* stands for the "continue" of an href that is neither relative nor on twitch.tv.
HrefPath(href) ==
    IF StartsWith(href, <<"/">>)
    THEN href
    ELSE IF Contains(href, TWITCH_TV)
    THEN Last(Split(href, TWITCH_TV))
    ELSE <<>>

RECURSIVE LinksLoopAnyDisplay(_, _, _)
\* The mutant: the link loops without their is_displayed test.
LinksLoopAnyDisplay(elements, i, valid) ==
    IF i > Len(elements)
    THEN [raised |-> FALSE, valid |-> valid]
    ELSE IF Stale(elements[i])
    THEN Raised
    ELSE IF /\ Href(elements[i]) # <<>>
            /\ HrefPath(Href(elements[i])) # <<>>
            /\ IsValidChannelPath(HrefPath(Href(elements[i])))
            /\ IsStreamingGame(elements[i], GAME_NAME)
    THEN LinksLoopAnyDisplay(elements, i + 1, Append(valid, elements[i]))
    ELSE LinksLoopAnyDisplay(elements, i + 1, valid)

RECURSIVE LinksLoopKeepsAccepted(_, _, _)
\* The mutant: an error while a match is examined ends the loop with the
\* candidates accepted so far.
LinksLoopKeepsAccepted(elements, i, valid) ==
    IF i > Len(elements)
    THEN [raised |-> FALSE, valid |-> valid]
    ELSE IF Stale(elements[i])
    THEN [raised |-> FALSE, valid |-> valid]
    ELSE IF /\ Displayed(elements[i])
            /\ Href(elements[i]) # <<>>
            /\ HrefPath(Href(elements[i])) # <<>>
            /\ IsValidChannelPath(HrefPath(Href(elements[i])))
            /\ IsStreamingGame(elements[i], GAME_NAME)
    THEN LinksLoopKeepsAccepted(elements, i + 1, Append(valid, elements[i]))
    ELSE LinksLoopKeepsAccepted(elements, i + 1, valid)

RECURSIVE LinksLoop(_, _, _)
\* The loop of get_streamer_elements over the matches of LIVE_CHANNEL_CARDS,
\* CHANNEL_CARDS or STREAMER_LINKS (the three loops are the same code).
LinksLoop(elements, i, valid) ==
    IF i > Len(elements)
    THEN [raised |-> FALSE, valid |-> valid]
    ELSE IF Stale(elements[i])
    THEN Raised
    ELSE IF /\ Displayed(elements[i])
            /\ Href(elements[i]) # <<>>
            /\ HrefPath(Href(elements[i])) # <<>>
            /\ IsValidChannelPath(HrefPath(Href(elements[i])))
            /\ IsStreamingGame(elements[i], GAME_NAME)
    THEN LinksLoop(elements, i + 1, Append(valid, elements[i]))
    ELSE LinksLoop(elements, i + 1, valid)

\* One try block of get_streamer_elements: find_elements, then the loop.
Examine(page, l) ==
    IF FindElements(page, l).exc # "none"
    THEN Raised
    ELSE IF l = 1
    THEN CardsLoop(page[l], 1, <<>>)
    ELSE LinksLoop(page[l], 1, <<>>)

RECURSIVE ChainReturnsEmpty(_, _)
\* The mutant: a try block returns its list without the "if valid" test.
ChainReturnsEmpty(page, order) ==
    IF order = <<>>
    THEN [exc |-> "NoStreamersFound", list |-> <<>>, loc |-> 0,
          shots |-> <<"no_streamers_found">>, tried |-> <<>>]
    ELSE LET r == Examine(page, Head(order))
             rest == ChainReturnsEmpty(page, Tail(order))
         IN  IF ~r.raised
             THEN [exc |-> "none", list |-> r.valid, loc |-> Head(order), shots |-> <<>>,
                   tried |-> <<Head(order)>>]
             ELSE [rest EXCEPT !.tried = <<Head(order)>> \o @]

RECURSIVE Chain(_, _)
\* The try blocks of get_streamer_elements over the locators `order`, one after
\* the other: the first that goes through with a non-empty `valid` returns it.
\* `tried` lists the locators find_elements was called with, in order.
Chain(page, order) ==
    IF order = <<>>
    THEN [exc |-> "NoStreamersFound", list |-> <<>>, loc |-> 0,
          shots |-> <<"no_streamers_found">>, tried |-> <<>>]
    ELSE LET r == Examine(page, Head(order))
             rest == Chain(page, Tail(order))
         IN  IF ~r.raised /\ r.valid # <<>>
             THEN [exc |-> "none", list |-> r.valid, loc |-> Head(order), shots |-> <<>>,
                   tried |-> <<Head(order)>>]
             ELSE [rest EXCEPT !.tried = <<Head(order)>> \o @]

\* The mutant: CHANNEL_CARDS tried before LIVE_CHANNEL_CARDS, the order in which
\* the class declares the two locators.
GetStreamerElementsDeclOrder(page) == Chain(page, <<1, 3, 2, 4>>)

\* TwitchSearchPage.get_streamer_elements
GetStreamerElements(page) == Chain(page, <<1, 2, 3, 4>>)

----------------------------------------------------------------------------
(* TwitchSearchPage.select_streamer, in its two halves: up to the choice   *)
(* of streamers[index], and from there to the end.                         *)

\* The index arguments select_streamer is given in the model.
MaxIndex == 3

\* What the first half of select_streamer did to the page: find_elements with
\* each locator tried, then the channel path and the tag name read from the
\* chosen candidate.
HeadActs(page, tried, streamer) ==
    [i \in 1..Len(tried) |->
        Act("find_elements", LocatorName(tried[i]), FindElements(page, tried[i]).exc = "none")]
    \o (IF streamer = "none"
        THEN <<>>
        ELSE <<Act("extract_channel", streamer, TRUE), Act("tag_name", streamer, TRUE)>>)

\* The indexes select_streamer is called with: from MaxBack below zero, where a
\* Python list counts from its end, to MaxIndex.
MaxBack == 2

Indexes == (0 - MaxBack)..MaxIndex

\* The mutant: the range check off by one (index >= len(streamers) - 1).
SelectStreamerHeadOffByOne(page, index) ==
    LET r == GetStreamerElements(page)
        n == Len(r.list)
        none == [exc |-> r.exc, list |-> r.list, loc |-> r.loc, chosen |-> "none",
                 shots |-> r.shots, tried |-> r.tried]
    IN  IF r.exc # "none"
        THEN none
        ELSE IF index >= n - 1
        THEN [none EXCEPT !.exc = "IndexError"]
        ELSE IF index >= 0
        THEN [none EXCEPT !.chosen = r.list[index + 1]]
        ELSE IF n + index >= 0
        THEN [none EXCEPT !.chosen = r.list[n + index + 1]]
        ELSE [none EXCEPT !.exc = "IndexError"]

\* The mutant: an index below zero is out of range as well.
SelectStreamerHeadFromZero(page, index) ==
    LET r == GetStreamerElements(page)
        n == Len(r.list)
        none == [exc |-> r.exc, list |-> r.list, loc |-> r.loc, chosen |-> "none",
                 shots |-> r.shots, tried |-> r.tried]
    IN  IF r.exc # "none"
        THEN none
        ELSE IF index >= n \/ index < 0
        THEN [none EXCEPT !.exc = "IndexError"]
        ELSE [none EXCEPT !.chosen = r.list[index + 1]]

\* From get_streamer_elements to streamer = streamers[index].  A Python list
\* takes a negative index from its end.
SelectStreamerHead(page, index) ==
    LET r == GetStreamerElements(page)
        n == Len(r.list)
        none == [exc |-> r.exc, list |-> r.list, loc |-> r.loc, chosen |-> "none",
                 shots |-> r.shots, tried |-> r.tried]
    IN  IF r.exc # "none"
        THEN none
        ELSE IF index >= n
        THEN [none EXCEPT !.exc = "IndexError"]
        ELSE IF index >= 0
        THEN [none EXCEPT !.chosen = r.list[index + 1]]
        ELSE IF n + index >= 0
        THEN [none EXCEPT !.chosen = r.list[n + index + 1]]
        ELSE [none EXCEPT !.exc = "IndexError"]

\* What the browser may do from the choice on: the handle has gone stale, the
\* wait for a clickable element times out, the click goes through, the click
\* raises and the script click goes through, or both raise.
TailCases == {"stale", "not_clickable", "click", "script_click", "click_fails"}

\* The addresses the browser may be at, by name, and their text.
ChannelUrls == {"channel_ab", "channel_kl", "elsewhere_kl"}

UrlText(u) ==
    CASE u = "blank" -> <<"d","a","t","a",":",",">>
      [] u = "home" -> BASE_URL \o <<"/">>
      [] u = "error" -> <<"c","h","r","o","m","e","-","e","r","r","o","r",":","/","/","x">>
      [] u = "search" -> BASE_URL \o <<"/","s","e","a","r","c","h","?","t","e","r","m","=","s","c">>
      [] u = "channel_ab" -> BASE_URL \o <<"/","a","b">>
      [] u = "channel_kl" -> BASE_URL \o <<"/","k","l">>
      [] u = "elsewhere_kl" -> <<"h","t","t","p","s",":","/","/","x",".","i","o","/","k","l">>

\* The mutant: the script click reaches the handle on the document the click
\* has led to.
TailActsAfterLoad(streamer, case) ==
    LET scroll == Act("scroll_into_view", streamer, case # "stale")
        wait == Act("wait_clickable", "any", case # "not_clickable")
        click == Act("click", streamer, case = "click")
        script == [Act("script_click", streamer, case = "script_click") EXCEPT !.doc = 1]
    IN  CASE case = "stale" -> <<scroll>>
          [] case = "not_clickable" -> <<scroll, wait>>
          [] case = "click" -> <<scroll, wait, click>>
          [] OTHER -> <<scroll, wait, click, script>>

\* What the second half of select_streamer does to the page up to its click:
\* scroll into view, wait for a clickable element, click, and the script click
\* when the click raised.
TailActs(streamer, case) ==
    LET scroll == Act("scroll_into_view", streamer, case # "stale")
        wait == Act("wait_clickable", "any", case # "not_clickable")
        click == Act("click", streamer, case = "click")
        script == Act("script_click", streamer, case = "script_click")
    IN  CASE case = "stale" -> <<scroll>>
          [] case = "not_clickable" -> <<scroll, wait>>
          [] case = "click" -> <<scroll, wait, click>>
          [] OTHER -> <<scroll, wait, click, script>>

\* The wait for the URL to change and, once it has, the read of the new URL
\* on the document the click led to.
UrlActs(changed) ==
    IF changed
    THEN <<Act("wait_url", "driver", TRUE), [Act("current_url", "driver", TRUE) EXCEPT !.doc = 1]>>
    ELSE <<Act("wait_url", "driver", FALSE)>>

\* The mutant: no wait for the URL to change after the click.
SelectStreamerTailNoWait(streamer, old_url, case, new_url) ==
    LET channel_path == ExtractChannelFromElement(streamer)
        expected_channel == LStrip(channel_path, "/")
        quiet == [exc |-> "none", clicks |-> <<>>, warns |-> <<>>, url |-> old_url,
                  acts |-> TailActs(streamer, case)]
        click == [el |-> streamer, by |-> IF case = "click" THEN "click" ELSE "script"]
    IN  IF case = "stale"
        THEN [quiet EXCEPT !.exc = "StaleElementReferenceException"]
        ELSE IF case = "not_clickable"
        THEN [quiet EXCEPT !.exc = "TimeoutException"]
        ELSE IF case = "click_fails"
        THEN [quiet EXCEPT !.exc = "JavascriptException"]
        ELSE [quiet EXCEPT !.clicks = <<click>>, !.url = new_url,
                           !.warns = IF expected_channel # <<>>
                                        /\ ~Contains(UrlText(new_url), expected_channel)
                                     THEN <<"expected_channel">>
                                     ELSE <<>>]

\* The mutant: a new URL without the expected channel raises instead of warning.
SelectStreamerTailStrict(streamer, old_url, case, new_url) ==
    LET channel_path == ExtractChannelFromElement(streamer)
        expected_channel == LStrip(channel_path, "/")
        quiet == [exc |-> "none", clicks |-> <<>>, warns |-> <<>>, url |-> old_url,
                  acts |-> TailActs(streamer, case)]
        click == [el |-> streamer, by |-> IF case = "click" THEN "click" ELSE "script"]
    IN  IF case = "stale"
        THEN [quiet EXCEPT !.exc = "StaleElementReferenceException"]
        ELSE IF case = "not_clickable"
        THEN [quiet EXCEPT !.exc = "TimeoutException"]
        ELSE IF case = "click_fails"
        THEN [quiet EXCEPT !.exc = "JavascriptException"]
        ELSE IF new_url = old_url
        THEN [quiet EXCEPT !.exc = "TimeoutException", !.clicks = <<click>>]
        ELSE IF expected_channel # <<>> /\ ~Contains(UrlText(new_url), expected_channel)
        THEN [quiet EXCEPT !.exc = "AssertionError", !.clicks = <<click>>, !.url = new_url]
        ELSE [quiet EXCEPT !.clicks = <<click>>, !.url = new_url]

\* From the streamer info to the end of select_streamer; new_url is what
\* driver.current_url reads after the click.
SelectStreamerTail(streamer, old_url, case, new_url) ==
    LET channel_path == ExtractChannelFromElement(streamer)
        expected_channel == LStrip(channel_path, "/")
        quiet == [exc |-> "none", clicks |-> <<>>, warns |-> <<>>, url |-> old_url,
                  acts |-> TailActs(streamer, case)]
        click == [el |-> streamer, by |-> IF case = "click" THEN "click" ELSE "script"]
    IN  IF case = "stale"
        THEN [quiet EXCEPT !.exc = "StaleElementReferenceException"]
        ELSE IF case = "not_clickable"
        THEN [quiet EXCEPT !.exc = "TimeoutException"]
        ELSE IF case = "click_fails"
        THEN [quiet EXCEPT !.exc = "JavascriptException"]
        ELSE IF new_url = old_url
        THEN [quiet EXCEPT !.exc = "TimeoutException", !.clicks = <<click>>,
                           !.acts = @ \o UrlActs(FALSE)]
        ELSE [quiet EXCEPT !.clicks = <<click>>, !.url = new_url,
                           !.acts = @ \o UrlActs(TRUE),
                           !.warns = IF expected_channel # <<>>
                                        /\ ~Contains(UrlText(new_url), expected_channel)
                                     THEN <<"expected_channel">>
                                     ELSE <<>>]

----------------------------------------------------------------------------
(* TwitchHomePage                                                          *)

\* TwitchHomePage.open: driver.get, then wait_for_page_load, which waits for
\* BROWSE_BUTTON and, when that fails, for BOTTOM_NAV.
Open(getOk, browse, nav) ==
    IF ~getOk
    THEN "TimeoutException"
    ELSE IF browse
    THEN "none"
    ELSE IF nav
    THEN "none"
    ELSE "TimeoutException"

\* The locators click_search_icon tries, in its order.
SearchLocators == <<"BROWSE_BUTTON", "BROWSE_BUTTON_ALT", "BROWSE_BUTTON_ALT2",
                    "SEARCH_ICON", "SEARCH_BUTTON", "SEARCH_BUTTON_ALT">>

\* BasePage.click may fail: no clickable element in time, or the click raises.
ClickResults == {"none", "TimeoutException", "ElementClickInterceptedException"}

\* What is left when no locator is visible: no element with the text Browse,
\* a displayed one whose script click goes through, one that is not displayed
\* and whose script click goes through, one whose script click raises.
Fallbacks == {"absent", "clicked", "clicked_hidden", "raises"}

\* What a locator may find in the document: nothing, an element that is not
\* displayed, an element that is.
ElemStates == {"absent", "hidden", "visible"}

\* The mutant: a wait for presence in place of the wait for visibility.
IsElementPresentInTime(state) == state # "absent"

\* BasePage.is_element_visible: the wait for visibility, False when it times out.
IsElementVisible(state) == state = "visible"

\* The calls of is_element_visible on the first n locators of click_search_icon.
VisibleProbes(vis, n) == [k \in 1..n |-> Act("wait_visible", SearchLocators[k], vis[k])]

\* The mutant: a click that raised is made once more.
ClickActsAgain(locator, click) ==
    IF click = "TimeoutException"
    THEN <<Act("wait_clickable", locator, FALSE)>>
    ELSE IF click = "none"
    THEN <<Act("wait_clickable", locator, TRUE), Act("click", locator, TRUE)>>
    ELSE <<Act("wait_clickable", locator, TRUE), Act("click", locator, FALSE),
           Act("click", locator, FALSE)>>

\* BasePage.click: the wait for a clickable element, then element.click().
ClickActs(locator, click) ==
    IF click = "TimeoutException"
    THEN <<Act("wait_clickable", locator, FALSE)>>
    ELSE <<Act("wait_clickable", locator, TRUE), Act("click", locator, click = "none")>>

\* The mutant: when the click on the first visible locator raises, the next
\* visible locator is clicked.
ClickSearchIconTryNext(vis, click, fallback) ==
    LET seen == {k \in 1..Len(SearchLocators) : vis[k]}
        first == CHOOSE k \in seen : \A j \in seen : k <= j
        later == {k \in seen : k > first}
        next == CHOOSE k \in later : \A j \in later : k <= j
        failed(e, as) == [exc |-> e, clicks |-> <<>>, shots |-> <<"search_button_not_found">>,
                          acts |-> as]
        all == VisibleProbes(vis, Len(SearchLocators))
        find == Act("find_present", "BrowseText", fallback # "absent")
        script == Act("script_click", "BrowseText", fallback # "raises")
    IN  IF seen # {}
        THEN LET as == VisibleProbes(vis, first) \o ClickActs(SearchLocators[first], click)
             IN  IF click = "none"
                 THEN [exc |-> "none",
                       clicks |-> <<[el |-> SearchLocators[first], by |-> "click"]>>,
                       shots |-> <<>>, acts |-> as]
                 ELSE IF later # {}
                 THEN [exc |-> "none",
                       clicks |-> <<[el |-> SearchLocators[next], by |-> "click"]>>,
                       shots |-> <<>>,
                       acts |-> as \o ClickActs(SearchLocators[next], "none")]
                 ELSE failed(click, as)
        ELSE IF fallback \in {"clicked", "clicked_hidden"}
        THEN [exc |-> "none", clicks |-> <<[el |-> "BrowseText", by |-> "script"]>>,
              shots |-> <<>>, acts |-> all \o <<find, script>>]
        ELSE IF fallback = "raises"
        THEN failed("JavascriptException", all \o <<find, script>>)
        ELSE failed("SearchButtonNotFound", all \o <<find>>)

\* TwitchHomePage.click_search_icon.  vis[k]: is_element_visible of locator k;
\* click: what BasePage.click of the first visible one comes to.
ClickSearchIcon(vis, click, fallback) ==
    LET seen == {k \in 1..Len(SearchLocators) : vis[k]}
        first == CHOOSE k \in seen : \A j \in seen : k <= j
        failed(e, as) == [exc |-> e, clicks |-> <<>>, shots |-> <<"search_button_not_found">>,
                          acts |-> as]
        all == VisibleProbes(vis, Len(SearchLocators))
        find == Act("find_present", "BrowseText", fallback # "absent")
        script == Act("script_click", "BrowseText", fallback # "raises")
    IN  IF seen # {}
        THEN LET as == VisibleProbes(vis, first) \o ClickActs(SearchLocators[first], click)
             IN  IF click = "none"
                 THEN [exc |-> "none",
                       clicks |-> <<[el |-> SearchLocators[first], by |-> "click"]>>,
                       shots |-> <<>>, acts |-> as]
                 ELSE failed(click, as)
        ELSE IF fallback \in {"clicked", "clicked_hidden"}
        THEN [exc |-> "none", clicks |-> <<[el |-> "BrowseText", by |-> "script"]>>,
              shots |-> <<>>, acts |-> all \o <<find, script>>]
        ELSE IF fallback = "raises"
        THEN failed("JavascriptException", all \o <<find, script>>)
        ELSE failed("SearchButtonNotFound", all \o <<find>>)

----------------------------------------------------------------------------
(* TwitchSearchPage.search_for and scroll_down                             *)

\* search_for: wait for SEARCH_INPUT, type the query, wait_for_search_results.
SearchFor(inputVisible, resultsVisible) ==
    IF ~inputVisible
    THEN "TimeoutException"
    ELSE IF ~resultsVisible
    THEN "TimeoutException"
    ELSE "none"

\* The scroll_down(times=2) of the test.
ScrollTimes == 2

\* BasePage.scroll_down: scroll_page each time, which waits for readyState.
ScrollDown(ready) ==
    IF \E i \in 1..ScrollTimes : ~ready[i] THEN "TimeoutException" ELSE "none"

----------------------------------------------------------------------------
(* TwitchStreamPage                                                        *)

ModalLocators == <<"MATURE_CONTENT_BUTTON", "CONSENT_BANNER_ACCEPT", "CLOSE_MODAL_BUTTON">>

\* What one modal may do: not there, or there but not displayed
\* (is_element_visible times out and answers False either way), the probe
\* itself raises, it is clicked and goes away, the click raises, it is clicked
\* and stays (wait_for_invisibility times out).
ModalCases == {"absent", "hidden", "probe_error", "dismissed", "click_fails", "lingers"}

\* What the body of one try block of handle_modals raises.
ModalBody(case) ==
    CASE case = "absent" -> "none"
      [] case = "hidden" -> "none"
      [] case = "probe_error" -> "WebDriverException"
      [] case = "dismissed" -> "none"
      [] case = "click_fails" -> "ElementClickInterceptedException"
      [] case = "lingers" -> "TimeoutException"

\* Whether the body of the try block got to click the modal's button.
ModalClicked(case) == case \in {"dismissed", "lingers"}

\* What the body of the try block of modal m does to the page.
ModalActs(m, case) ==
    LET locator == ModalLocators[m]
        probe == Act("wait_visible", locator, ModalClicked(case) \/ case = "click_fails")
    IN  CASE case \in {"absent", "hidden", "probe_error"} -> <<probe>>
          [] case = "click_fails" ->
                <<probe>> \o ClickActs(locator, "ElementClickInterceptedException")
          [] OTHER ->
                <<probe>> \o ClickActs(locator, "none")
                    \o <<Act("wait_invisible", locator, case = "dismissed")>>

\* The mutant: "except TimeoutException: pass" in place of the bare except.
ExceptTimeoutOnly(e) == IF e = "TimeoutException" THEN "none" ELSE e

\* The "except: pass" of each try block of handle_modals.
ExceptPass(e) == "none"

RECURSIVE ModalBlocks(_, _, _)
\* The try blocks of handle_modals from block m on.
ModalBlocks(cases, m, done) ==
    IF m > Len(ModalLocators)
    THEN done
    ELSE LET escaped == ExceptPass(ModalBody(cases[m]))
             now == [exc |-> escaped,
                     probes |-> Append(done.probes, ModalLocators[m]),
                     acts |-> done.acts \o ModalActs(m, cases[m]),
                     clicks |-> IF ModalClicked(cases[m])
                                THEN Append(done.clicks, [el |-> ModalLocators[m], by |-> "click"])
                                ELSE done.clicks]
         IN  IF escaped # "none" THEN now ELSE ModalBlocks(cases, m + 1, now)

\* TwitchStreamPage.handle_modals
HandleModals(cases) ==
    ModalBlocks(cases, 1, [exc |-> "none", probes |-> <<>>, clicks |-> <<>>, acts |-> <<>>])

\* What is_element_visible(VIDEO_PLAYER) meets: a displayed video, none in
\* time, one that is not displayed, or an error other than a timeout.
VideoCases == {"visible", "timeout", "hidden", "error"}

\* What is_video_playing meets: a playing video, a paused one, or an error in
\* find_element or in the script.
PlayingCases == {"playing", "paused", "error"}

\* TwitchStreamPage.is_video_playing: any error inside it counts as False.
IsVideoPlaying(playing) == playing = "playing"

\* The mutant: a video that is not playing, or whose paused check failed, does
\* not count as loaded.
VerifyStreamLoadedMustPlay(video, playing, container) ==
    LET probe == Act("wait_visible", "VIDEO_PLAYER", video = "visible")
        paused == Act("paused_check", "VIDEO_PLAYER", playing # "error")
        fallback == Act("wait_visible", "PLAYER_CONTAINER", container)
    IN  IF video = "error"
        THEN [exc |-> "WebDriverException", shots |-> <<"video_player_error">>,
              acts |-> <<probe>>]
        ELSE IF video = "visible" /\ IsVideoPlaying(playing)
        THEN [exc |-> "none", shots |-> <<>>, acts |-> <<probe, paused>>]
        ELSE IF video = "visible"
        THEN [exc |-> "VideoPlayerNotLoaded",
              shots |-> <<"video_player_not_found", "video_player_error">>,
              acts |-> <<probe, paused>>]
        ELSE IF container
        THEN [exc |-> "none", shots |-> <<>>, acts |-> <<probe, fallback>>]
        ELSE [exc |-> "VideoPlayerNotLoaded",
              shots |-> <<"video_player_not_found", "video_player_error">>,
              acts |-> <<probe, fallback>>]

\* TwitchStreamPage.verify_stream_loaded
VerifyStreamLoaded(video, playing, container) ==
    LET probe == Act("wait_visible", "VIDEO_PLAYER", video = "visible")
        paused == Act("paused_check", "VIDEO_PLAYER", playing # "error")
        fallback == Act("wait_visible", "PLAYER_CONTAINER", container)
    IN  IF video = "error"
        THEN [exc |-> "WebDriverException", shots |-> <<"video_player_error">>,
              acts |-> <<probe>>]
        ELSE IF video = "visible"
        THEN IF IsVideoPlaying(playing)
             THEN [exc |-> "none", shots |-> <<>>, acts |-> <<probe, paused>>]
             ELSE [exc |-> "none", shots |-> <<>>, acts |-> <<probe, paused>>]
        ELSE IF container
        THEN [exc |-> "none", shots |-> <<>>, acts |-> <<probe, fallback>>]
        ELSE [exc |-> "VideoPlayerNotLoaded",
              shots |-> <<"video_player_not_found", "video_player_error">>,
              acts |-> <<probe, fallback>>]

----------------------------------------------------------------------------
(* DriverFactory.  A factory state is DriverFactory._instance (0 for None)  *)
(* with the drivers created so far; `ret` is what the call returned.       *)

\* The state of the factory as the variables hold it.
Factory == [instance |-> instance, drivers |-> drivers, ret |-> 0]

\* webdriver.Chrome(...): one more driver, not yet quit.
NewDriver(via) == [via |-> via, quits |-> 0]

\* The mutant: create_driver keeps the driver it made in _instance.
CreateDriverStored(f) ==
    [instance |-> Len(f.drivers) + 1,
     drivers |-> Append(f.drivers, NewDriver("create_driver")),
     ret |-> Len(f.drivers) + 1]

\* DriverFactory.create_driver: makes a driver and returns it.
CreateDriver(f) ==
    [instance |-> f.instance,
     drivers |-> Append(f.drivers, NewDriver("create_driver")),
     ret |-> Len(f.drivers) + 1]

\* The mutant: get_driver makes a driver on every call.
GetDriverAlwaysNew(f) ==
    LET c == CreateDriver(f)
    IN  [c EXCEPT !.instance = c.ret, !.drivers[c.ret].via = "get_driver"]

\* DriverFactory.get_driver: the stored driver, made first when there is none.
GetDriver(f) ==
    IF f.instance = 0
    THEN LET c == CreateDriver(f)
         IN  [c EXCEPT !.instance = c.ret, !.drivers[c.ret].via = "get_driver"]
    ELSE [f EXCEPT !.ret = f.instance]

\* driver.quit()
Quit(ds, d) == [ds EXCEPT ![d].quits = @ + 1]

\* DriverFactory.quit_driver: quits the stored driver, when there is one, and
\* forgets it.
QuitDriver(f) ==
    IF f.instance # 0
    THEN [instance |-> 0, drivers |-> Quit(f.drivers, f.instance), ret |-> 0]
    ELSE [f EXCEPT !.ret = 0]

----------------------------------------------------------------------------
(* The test functions of tests/test_twitch.py and the fixtures of          *)
(* tests/conftest.py.                                                      *)

\* The test functions, in the order pytest runs them.
Tests == <<"test_twitch_starcraft_stream", "test_twitch_homepage_loads",
           "test_twitch_search_opens">>

\* The statements of each test function that can fail, in order.
Script(t) ==
    CASE t = 1 -> <<"open", "assert_title", "click_search_icon", "search_for",
                    "scroll_down", "select_streamer", "handle_modals",
                    "verify_stream_loaded", "assert_url">>
      [] t = 2 -> <<"open", "assert_title", "assert_url">>
      [] t = 3 -> <<"open", "click_search_icon", "assert_search_input">>

\* The mutant: the statement's exception is swallowed and the test goes on.
AfterStepGoesOn(t, op, e) ==
    LET k == CHOOSE i \in 1..Len(Script(t)) : Script(t)[i] = op
    IN  IF k = Len(Script(t)) THEN "passed" ELSE Script(t)[k + 1]

\* Where a test function is after statement op ended with exception e ("none":
\* it returned): Python runs the next statement, or leaves the function.
AfterStep(t, op, e) ==
    LET k == CHOOSE i \in 1..Len(Script(t)) : Script(t)[i] = op
    IN  IF e # "none"
        THEN "failed"
        ELSE IF k = Len(Script(t))
        THEN "passed"
        ELSE Script(t)[k + 1]

\* The operation-local logs, emptied.
Quiet ==
    /\ clicks' = <<>>
    /\ shots' = <<>>
    /\ warns' = <<>>
    /\ probes' = <<>>
    /\ acts' = <<>>

\* Statement op of the current test ended with exception e.
Ended(op, e) ==
    /\ trace' = Append(trace, [op |-> op, exc |-> e])
    /\ exc' = e
    /\ pc' = AfterStep(test, op, e)

\* The setup of the session fixture `driver`: create_driver, then the yield.
SessionStart ==
    /\ pc = "session_start"
    /\ \E c \in {CreateDriver(Factory)} :
        /\ instance' = c.instance
        /\ drivers' = c.drivers
        /\ driver' = c.ret
    /\ pc' = "open"
    /\ inp' = [op |-> "session_start"]
    /\ UNCHANGED <<test, exc, cands, fromLoc, chosen, url, clicks, shots, warns, probes,
                   trace, finished, acts, docv, queriedAt>>
    /\ UNCHANGED <<path, verdict, calls, ret>>

\* The teardown of the session fixture `driver`, after the last test:
\* driver_instance.quit(), then DriverFactory.quit_driver().
SessionEnd ==
    /\ pc = "session_end"
    /\ \E q \in {QuitDriver([Factory EXCEPT !.drivers = Quit(drivers, driver)])} :
        /\ instance' = q.instance
        /\ drivers' = q.drivers
    /\ pc' = "session_done"
    /\ inp' = [op |-> "session_end"]
    /\ UNCHANGED <<test, exc, cands, fromLoc, chosen, url, clicks, shots, warns, probes,
                   trace, finished, acts, docv, queriedAt>>
    /\ UNCHANGED <<path, verdict, driver, calls, ret>>

StepOpen ==
    /\ pc = "open"
    /\ \E getOk \in BOOLEAN, browse \in BOOLEAN, nav \in BOOLEAN, landed \in {"home", "error"} :
        /\ inp' = [op |-> "open", getOk |-> getOk, browse |-> browse, nav |-> nav,
                   landed |-> landed]
        /\ url' = IF getOk THEN landed ELSE url
        /\ docv' = IF getOk THEN docv + 1 ELSE docv
        /\ Ended("open", Open(getOk, browse, nav))
    /\ Quiet
    /\ UNCHANGED <<test, cands, fromLoc, chosen, finished, queriedAt>>
    /\ UNCHANGED unitVars

\* assert "Twitch" in driver.title
StepAssertTitle ==
    /\ pc = "assert_title"
    /\ \E titled \in BOOLEAN :
        /\ inp' = [op |-> "assert_title", titled |-> titled]
        /\ Ended("assert_title", IF titled THEN "none" ELSE "AssertionError")
    /\ Quiet
    /\ UNCHANGED <<test, cands, fromLoc, chosen, url, finished, docv, queriedAt>>
    /\ UNCHANGED unitVars

\* home_page.click_search_icon().  dom[k] is what locator k finds.  Only what
\* the operation reads is drawn: the locators up to the first visible one, the
\* outcome of the click when there is one, the element with the text Browse
\* when there is none.
StepClickSearchIcon ==
    /\ pc = "click_search_icon"
    /\ \E dom \in [1..Len(SearchLocators) -> ElemStates], click \in ClickResults,
          fallback \in Fallbacks :
        LET vis == [k \in 1..Len(SearchLocators) |-> IsElementVisible(dom[k])]
            r == ClickSearchIcon(vis, click, fallback)
        IN  /\ \A j, k \in 1..Len(SearchLocators) : (vis[j] /\ j < k) => dom[k] # "hidden"
            /\ (\E k \in 1..Len(SearchLocators) : vis[k]) => fallback = "absent"
            /\ (\A k \in 1..Len(SearchLocators) : ~vis[k]) => click = "none"
            /\ inp' = [op |-> "click_search_icon", dom |-> dom, vis |-> vis,
                       click |-> click, fallback |-> fallback]
            /\ clicks' = r.clicks
            /\ shots' = r.shots
            /\ acts' = Stamp(r.acts, docv)
            /\ Ended("click_search_icon", r.exc)
    /\ warns' = <<>>
    /\ probes' = <<>>
    /\ UNCHANGED <<test, cands, fromLoc, chosen, url, finished, docv, queriedAt>>
    /\ UNCHANGED unitVars

StepSearchFor ==
    /\ pc = "search_for"
    /\ \E inputVisible \in BOOLEAN, resultsVisible \in BOOLEAN :
        LET e == SearchFor(inputVisible, resultsVisible)
        IN  /\ inp' = [op |-> "search_for", inputVisible |-> inputVisible,
                       resultsVisible |-> resultsVisible]
            /\ url' = IF inputVisible THEN "search" ELSE url
            /\ docv' = IF inputVisible THEN docv + 1 ELSE docv
            /\ Ended("search_for", e)
    /\ Quiet
    /\ UNCHANGED <<test, cands, fromLoc, chosen, finished, queriedAt>>
    /\ UNCHANGED unitVars

StepScrollDown ==
    /\ pc = "scroll_down"
    /\ \E ready \in [1..ScrollTimes -> BOOLEAN] :
        /\ inp' = [op |-> "scroll_down", ready |-> ready]
        /\ Ended("scroll_down", ScrollDown(ready))
    /\ Quiet
    /\ UNCHANGED <<test, cands, fromLoc, chosen, url, finished, docv, queriedAt>>
    /\ UNCHANGED unitVars

\* Where the test is after the first half of select_streamer: inside its
\* second half, unless the first half raised.
HeadPc(t, e) ==
    IF e # "none" THEN AfterStep(t, "select_streamer", e) ELSE "select_streamer.click"

HeadTrace(tr, e) ==
    IF e # "none" THEN Append(tr, [op |-> "select_streamer", exc |-> e]) ELSE tr

\* select_streamer up to streamer = streamers[index]
StepSelectStreamer ==
    /\ pc = "select_streamer"
    /\ \E page \in Pages, index \in Indexes :
        \E r \in {SelectStreamerHead(page, index)} :
            /\ inp' = [op |-> "select_streamer", page |-> page, index |-> index]
            /\ cands' = r.list
            /\ fromLoc' = r.loc
            /\ chosen' = r.chosen
            /\ shots' = r.shots
            /\ acts' = Stamp(HeadActs(page, r.tried, r.chosen), docv)
            /\ exc' = r.exc
            /\ trace' = HeadTrace(trace, r.exc)
            /\ pc' = HeadPc(test, r.exc)
    /\ queriedAt' = docv
    /\ clicks' = <<>>
    /\ warns' = <<>>
    /\ probes' = <<>>
    /\ UNCHANGED <<test, url, finished, docv>>
    /\ UNCHANGED unitVars

\* select_streamer from there: scroll into view, wait, click, wait for the URL;
\* the list `streamers` is gone when the method ends.
StepSelectStreamerClick ==
    /\ pc = "select_streamer.click"
    /\ \E case \in TailCases, new_url \in ChannelUrls \cup {url} :
        /\ case \notin {"click", "script_click"} => new_url = url
        /\ \E r \in {SelectStreamerTail(chosen, url, case, new_url)} :
            /\ inp' = [op |-> "select_streamer.click", case |-> case, old_url |-> url,
                       new_url |-> new_url]
            /\ clicks' = r.clicks
            /\ warns' = r.warns
            /\ url' = r.url
            /\ docv' = IF r.url # url THEN docv + 1 ELSE docv
            /\ acts' = Stamp(r.acts, docv)
            /\ Ended("select_streamer", r.exc)
    /\ cands' = <<>>
    /\ fromLoc' = 0
    /\ shots' = <<>>
    /\ probes' = <<>>
    /\ UNCHANGED <<test, chosen, finished, queriedAt>>
    /\ UNCHANGED unitVars

StepHandleModals ==
    /\ pc = "handle_modals"
    /\ \E cases \in [1..Len(ModalLocators) -> ModalCases] :
        \E r \in {HandleModals(cases)} :
            /\ inp' = [op |-> "handle_modals", cases |-> cases]
            /\ clicks' = r.clicks
            /\ probes' = r.probes
            /\ acts' = Stamp(r.acts, docv)
            /\ Ended("handle_modals", r.exc)
    /\ shots' = <<>>
    /\ warns' = <<>>
    /\ UNCHANGED <<test, cands, fromLoc, chosen, url, finished, docv, queriedAt>>
    /\ UNCHANGED unitVars

StepVerifyStreamLoaded ==
    /\ pc = "verify_stream_loaded"
    /\ \E video \in VideoCases, playing \in PlayingCases, container \in BOOLEAN :
        \E r \in {VerifyStreamLoaded(video, playing, container)} :
            /\ inp' = [op |-> "verify_stream_loaded", video |-> video,
                       playing |-> playing, container |-> container]
            /\ shots' = r.shots
            /\ acts' = Stamp(r.acts, docv)
            /\ Ended("verify_stream_loaded", r.exc)
    /\ clicks' = <<>>
    /\ warns' = <<>>
    /\ probes' = <<>>
    /\ UNCHANGED <<test, cands, fromLoc, chosen, url, finished, docv, queriedAt>>
    /\ UNCHANGED unitVars

\* assert "twitch.tv" in driver.current_url
StepAssertUrl ==
    /\ pc = "assert_url"
    /\ inp' = [op |-> "assert_url"]
    /\ Ended("assert_url", IF Contains(UrlText(url), TWITCH_TV) THEN "none" ELSE "AssertionError")
    /\ Quiet
    /\ UNCHANGED <<test, cands, fromLoc, chosen, url, finished, docv, queriedAt>>
    /\ UNCHANGED unitVars

\* The assert of test_twitch_search_opens: is_element_visible(SEARCH_INPUT)
\* or, when that is False, the attribute SEARCH_INPUT_ALT, which
\* TwitchSearchPage does not define.
AssertSearchInput(inputVisible) == IF inputVisible THEN "none" ELSE "AttributeError"

StepAssertSearchInput ==
    /\ pc = "assert_search_input"
    /\ \E inputVisible \in BOOLEAN :
        /\ inp' = [op |-> "assert_search_input", inputVisible |-> inputVisible]
        /\ Ended("assert_search_input", AssertSearchInput(inputVisible))
    /\ Quiet
    /\ UNCHANGED <<test, cands, fromLoc, chosen, url, finished, docv, queriedAt>>
    /\ UNCHANGED unitVars

\* The mutant: the fixture reads the report of the wrong outcome.
TeardownShotOnPass(outcome, saved) ==
    IF outcome = "passed"
    THEN IF saved THEN "saved" ELSE "save_failed"
    ELSE "not_asked"

\* The teardown of screenshot_on_failure after the call of a test: whether it
\* asks the driver for a screenshot, given the report of the call.
TeardownShot(outcome, saved) ==
    IF outcome = "failed"
    THEN IF saved THEN "saved" ELSE "save_failed"
    ELSE "not_asked"

\* The call of the current test is over: the report is made, the fixture is
\* torn down, and pytest goes on to the next test function.
Teardown ==
    /\ pc \in {"passed", "failed"}
    /\ \E saved \in BOOLEAN :
        finished' = Append(finished, [test |-> Tests[test], outcome |-> pc,
                                      shot |-> TeardownShot(pc, saved)])
    /\ test' = test + 1
    /\ pc' = IF test = Len(Tests) THEN "session_end" ELSE "open"
    /\ exc' = "none"
    /\ inp' = [op |-> "teardown"]
    /\ cands' = <<>>
    /\ fromLoc' = 0
    /\ chosen' = "none"
    /\ trace' = <<>>
    /\ queriedAt' = 0 - 1
    /\ docv' = 0
    /\ Quiet
    /\ UNCHANGED <<url>>
    /\ UNCHANGED unitVars

Init ==
    /\ path = <<>>
    /\ verdict = "unchecked"
    /\ test = 1
    /\ pc = "session_start"
    /\ exc = "none"
    /\ inp = [op |-> "none"]
    /\ cands = <<>>
    /\ fromLoc = 0
    /\ chosen = "none"
    /\ url = "blank"
    /\ clicks = <<>>
    /\ shots = <<>>
    /\ warns = <<>>
    /\ probes = <<>>
    /\ trace = <<>>
    /\ finished = <<>>
    /\ acts = <<>>
    /\ docv = 0
    /\ queriedAt = 0 - 1
    /\ instance = 0
    /\ drivers = <<>>
    /\ driver = 0
    /\ calls = <<>>
    /\ ret = "unset"

Next ==
    \/ SessionStart
    \/ SessionEnd
    \/ StepOpen
    \/ StepAssertTitle
    \/ StepClickSearchIcon
    \/ StepSearchFor
    \/ StepScrollDown
    \/ StepSelectStreamer
    \/ StepSelectStreamerClick
    \/ StepHandleModals
    \/ StepVerifyStreamLoaded
    \/ StepAssertUrl
    \/ StepAssertSearchInput
    \/ Teardown

Spec == Init /\ [][Next]_vars

----------------------------------------------------------------------------
(* _is_valid_channel_path on its own, over a family of path strings.       *)

\* n times the character "a"
Name(n) == [i \in 1..n |-> "a"]

Suffixes == {<<>>, <<"?","x","=","1">>, <<"#","y">>, <<"?","x","=","1","#","y">>,
             <<"#","y","?","x">>}

PathInputs ==
    {pre \o Name(n) \o suf : pre \in {<<>>, <<"/">>}, n \in 0..MaxName, suf \in Suffixes}

InitPath ==
    /\ path \in PathInputs
    /\ verdict = "unchecked"
    /\ test = 0
    /\ pc = "idle"
    /\ exc = "none"
    /\ inp = [op |-> "none"]
    /\ cands = <<>>
    /\ fromLoc = 0
    /\ chosen = "none"
    /\ url = "blank"
    /\ clicks = <<>>
    /\ shots = <<>>
    /\ warns = <<>>
    /\ probes = <<>>
    /\ trace = <<>>
    /\ finished = <<>>
    /\ acts = <<>>
    /\ docv = 0
    /\ queriedAt = 0 - 1
    /\ instance = 0
    /\ drivers = <<>>
    /\ driver = 0
    /\ calls = <<>>
    /\ ret = "unset"

CheckPath ==
    /\ verdict = "unchecked"
    /\ verdict' = IF IsValidChannelPath(path) THEN "accepted" ELSE "rejected"
    /\ UNCHANGED <<path>>
    /\ UNCHANGED flowVars
    /\ UNCHANGED <<factoryVars, ret>>

NextPath == CheckPath

SpecPath == InitPath /\ [][NextPath]_vars

\* Attribute values of the elements _extract_channel_from_element is given.
H_REL == <<"/","a","b">>
H_REL_Q == <<"/","c","d","?","x","=","1">>
H_ZZ == <<"/","z","z">>
H_FOREIGN == <<"h","t","t","p","s",":","/","/","x",".","i","o","/","a","b">>
H_BARE == <<"a","b","/","c","d">>
S_SIZED == <<"k","l","-","4","4","0","x","2","4","8",".","j","p","g">>
S_DOT == <<"m","n",".","j","p","g">>
S_PLAIN == <<"o","p">>
S_EMPTY == <<"-","4","4","0","x","2","4","8",".","j","p","g">>
S_OTHER == <<"o","t","h","e","r",".","j","p","g">>

----------------------------------------------------------------------------
(* _extract_channel_from_element on its own: the attributes the element    *)
(* and its images may carry are drawn at the start and the function is     *)
(* applied once.                                                           *)

\* The values element.get_attribute('href') may give; <<>> is None.
HrefInputs ==
    { <<>>,
      H_REL,
      H_REL_Q,
      BASE_URL \o H_REL,
      BASE_URL \o <<"/">> \o TWITCH_TV \o H_ZZ,
      BASE_URL,
      H_FOREIGN,
      H_BARE }

\* The src of the images the selector img[src*='live_user_'] may give, in
\* document order.
SrcInputs ==
    { CdnPrefix \o LIVE_USER \o S_SIZED,
      CdnPrefix \o LIVE_USER \o S_DOT,
      CdnPrefix \o LIVE_USER \o S_PLAIN,
      CdnPrefix \o LIVE_USER \o LIVE_USER \o S_SIZED,
      CdnPrefix \o LIVE_USER \o S_EMPTY,
      CdnPrefix \o S_OTHER }

ImgInputs ==
    {<<>>} \cup {<<a>> : a \in SrcInputs}
           \cup {<<a, CdnPrefix \o LIVE_USER \o S_DOT>> : a \in SrcInputs}

InitExtract ==
    /\ inp \in [op : {"extract"}, href : HrefInputs, imgs : ImgInputs, fault : Faults]
    /\ ret = "unset"
    /\ path = <<>>
    /\ verdict = "unchecked"
    /\ test = 0
    /\ pc = "idle"
    /\ exc = "none"
    /\ cands = <<>>
    /\ fromLoc = 0
    /\ chosen = "none"
    /\ url = "blank"
    /\ clicks = <<>>
    /\ shots = <<>>
    /\ warns = <<>>
    /\ probes = <<>>
    /\ trace = <<>>
    /\ finished = <<>>
    /\ acts = <<>>
    /\ docv = 0
    /\ queriedAt = 0 - 1
    /\ instance = 0
    /\ drivers = <<>>
    /\ driver = 0
    /\ calls = <<>>

CallExtract ==
    /\ pc = "idle"
    /\ inp.op = "extract"
    /\ \E r \in {ExtractChannel(inp.href, inp.imgs, inp.fault)} :
          /\ ret' = r.ret
          /\ exc' = r.exc
    /\ pc' = "returned"
    /\ UNCHANGED <<inp, path, verdict, test, cands, fromLoc, chosen, url, clicks,
                   shots, warns, probes, trace, finished, acts, docv, queriedAt>>
    /\ UNCHANGED factoryVars

NextExtract == CallExtract

SpecExtract == InitExtract /\ [][NextExtract]_vars

----------------------------------------------------------------------------
(* BasePage.handle_modal_if_present on its own.  Times are seconds from the *)
(* start of each wait.                                                     *)

\* config.settings.EXPLICIT_WAIT_TIMEOUT
EXPLICIT_WAIT_TIMEOUT == 10

\* The largest timeout the caller passes and the largest short delay.
MaxTimeout == 3
MaxDelay == 4

\* After how long a condition waited for comes true: shortly, at the end of
\* the default wait, or after it.
Delays == 0..MaxDelay \cup {EXPLICIT_WAIT_TIMEOUT, EXPLICIT_WAIT_TIMEOUT + 1}

\* WebDriverWait(driver, t).until(condition), the condition true after d.
Until(t, d) == d <= t

\* wait_for_invisibility and its like: timeout or EXPLICIT_WAIT_TIMEOUT
TimeoutOr(timeout) == IF timeout = 0 THEN EXPLICIT_WAIT_TIMEOUT ELSE timeout

\* The mutant: only the wait for the modal is inside the try block.
HandleModalIfPresentFirstWaitOnly(timeout, appears, clickable, click, gone) ==
    IF ~Until(timeout, appears)
    THEN [exc |-> "none", ret |-> "False"]
    ELSE IF ~Until(EXPLICIT_WAIT_TIMEOUT, clickable)
    THEN [exc |-> "TimeoutException", ret |-> "unset"]
    ELSE IF click # "none"
    THEN [exc |-> click, ret |-> "unset"]
    ELSE IF ~Until(TimeoutOr(timeout), gone)
    THEN [exc |-> "TimeoutException", ret |-> "unset"]
    ELSE [exc |-> "none", ret |-> "True"]

\* BasePage.handle_modal_if_present: the modal is visible after `appears`, the
\* close button clickable after `clickable`, element.click() comes to `click`,
\* the modal is invisible after `gone`.
HandleModalIfPresent(timeout, appears, clickable, click, gone) ==
    IF ~Until(timeout, appears)
    THEN [exc |-> "none", ret |-> "False"]
    ELSE IF ~Until(EXPLICIT_WAIT_TIMEOUT, clickable)
    THEN [exc |-> "none", ret |-> "False"]
    ELSE IF click # "none"
    THEN [exc |-> click, ret |-> "unset"]
    ELSE IF ~Until(TimeoutOr(timeout), gone)
    THEN [exc |-> "none", ret |-> "False"]
    ELSE [exc |-> "none", ret |-> "True"]

InitModal ==
    /\ inp \in [op : {"handle_modal_if_present"}, timeout : 0..MaxTimeout, appears : Delays,
                clickable : Delays, click : {"none", "ElementClickInterceptedException"},
                gone : Delays]
    /\ ret = "unset"
    /\ path = <<>>
    /\ verdict = "unchecked"
    /\ test = 0
    /\ pc = "idle"
    /\ exc = "none"
    /\ cands = <<>>
    /\ fromLoc = 0
    /\ chosen = "none"
    /\ url = "blank"
    /\ clicks = <<>>
    /\ shots = <<>>
    /\ warns = <<>>
    /\ probes = <<>>
    /\ trace = <<>>
    /\ finished = <<>>
    /\ acts = <<>>
    /\ docv = 0
    /\ queriedAt = 0 - 1
    /\ instance = 0
    /\ drivers = <<>>
    /\ driver = 0
    /\ calls = <<>>

CallHandleModal ==
    /\ pc = "idle"
    /\ inp.op = "handle_modal_if_present"
    /\ \E r \in {HandleModalIfPresent(inp.timeout, inp.appears, inp.clickable, inp.click,
                                      inp.gone)} :
          /\ ret' = r.ret
          /\ exc' = r.exc
    /\ pc' = "returned"
    /\ UNCHANGED <<inp, path, verdict, test, cands, fromLoc, chosen, url, clicks,
                   shots, warns, probes, trace, finished, acts, docv, queriedAt>>
    /\ UNCHANGED factoryVars

NextModal == CallHandleModal

SpecModal == InitModal /\ [][NextModal]_vars

----------------------------------------------------------------------------
(* DriverFactory on its own: get_driver, quit_driver and create_driver      *)
(* called in any order.                                                    *)

\* The number of calls made to the factory.
MaxCalls == 5

\* What a call did, read off the factory before (f) and after (g) it.
Logged(op, f, g) ==
    [op |-> op, before |-> f.instance, after |-> g.instance, ret |-> g.ret,
     made |-> Len(g.drivers) - Len(f.drivers),
     quit |-> [d \in DOMAIN f.drivers |-> g.drivers[d].quits - f.drivers[d].quits]]

InitFactory ==
    /\ inp = [op |-> "factory"]
    /\ instance = 0
    /\ drivers = <<>>
    /\ driver = 0
    /\ calls = <<>>
    /\ ret = "unset"
    /\ path = <<>>
    /\ verdict = "unchecked"
    /\ test = 0
    /\ pc = "idle"
    /\ exc = "none"
    /\ cands = <<>>
    /\ fromLoc = 0
    /\ chosen = "none"
    /\ url = "blank"
    /\ clicks = <<>>
    /\ shots = <<>>
    /\ warns = <<>>
    /\ probes = <<>>
    /\ trace = <<>>
    /\ finished = <<>>
    /\ acts = <<>>
    /\ docv = 0
    /\ queriedAt = 0 - 1

\* The factory goes from its state to g by a call of op.
Called(op, g) ==
    /\ inp.op = "factory"
    /\ Len(calls) < MaxCalls
    /\ instance' = g.instance
    /\ drivers' = g.drivers
    /\ calls' = Append(calls, Logged(op, Factory, g))
    /\ UNCHANGED <<driver, ret, path, verdict>>
    /\ UNCHANGED flowVars

CallGetDriver == \E g \in {GetDriver(Factory)} : Called("get_driver", g)

CallQuitDriver == \E g \in {QuitDriver(Factory)} : Called("quit_driver", g)

CallCreateDriver == \E g \in {CreateDriver(Factory)} : Called("create_driver", g)

NextFactory ==
    \/ CallGetDriver
    \/ CallQuitDriver
    \/ CallCreateDriver

SpecFactory == InitFactory /\ [][NextFactory]_vars

----------------------------------------------------------------------------
(* What the claims are stated with.                                        *)

\* The state right after the first half of select_streamer ran.
AfterHead == inp.op = "select_streamer"

\* The state right after the second half of select_streamer ran.
AfterTail == inp.op = "select_streamer.click"

\* The elements of the document a reader of its table expects to be accepted:
\* displayed, with a channel path of 2 to 30 characters, showing StarCraft II.
IsAcceptableLink(e) == e \in {"aGood", "aRel"}

IsAcceptableImage(img) == img \in {"imgCard", "imgCard2", "imgLink"}

IsAttachedAndShown(e) == e \notin {"aHidden", "imgHidden", "aStale", "imgStale"}

HasStale(q) == \E i \in 1..Len(q) : q[i] \in {"aStale", "imgStale"}

\* Locator l has a visible match on the page.
HasVisibleMatch(page, l) == \E i \in 1..Len(page[l]) : IsAttachedAndShown(page[l][i])

ParentOf(img) == IF img = "imgLink" THEN "aGood" ELSE "bCard"

\* The candidates a reader expects from locator l alone.
Expected(page, l) ==
    IF l = 1
    THEN LET imgs == SelectSeq(page[1], IsAcceptableImage)
         IN  [i \in 1..Len(imgs) |-> ParentOf(imgs[i])]
    ELSE SelectSeq(page[l], IsAcceptableLink)

\* Locator l is gone through without an error and accepts a candidate.
Yields(page, l) == ~HasStale(page[l]) /\ Expected(page, l) # <<>>

\* a is b with some of its entries left out.
IsSubSeq(a, b) ==
    \E f \in [1..Len(a) -> 1..Len(b)] :
        /\ \A i, j \in 1..Len(a) : i < j => f[i] < f[j]
        /\ \A i \in 1..Len(a) : b[f[i]] = a[i]

\* Every element of q passes the path and the keyword predicate of the filter.
PassPathAndKeyword(q) ==
    \A i \in 1..Len(q) :
        /\ IsValidChannelPath(ExtractChannelFromElement(q[i]))
        /\ IsStreamingGame(q[i], GAME_NAME)

----------------------------------------------------------------------------
(* The claims.                                                             *)

\* C1 as stated: get_streamer_elements returns the matches of the first locator
\* that has a visible match; a later locator's matches are never returned when
\* an earlier locator has a visible match.
C1_FirstVisibleWins ==
    (AfterHead /\ fromLoc # 0) =>
        \A k \in 1..(fromLoc - 1) : ~HasVisibleMatch(inp.page, k)

\* C1 amended: the chain is tried in the order SEARCH_RESULT_CARDS,
\* LIVE_CHANNEL_CARDS, CHANNEL_CARDS, STREAMER_LINKS, and what is returned is
\* the accepted candidates of the first locator that is gone through without an
\* error and accepts at least one candidate, whatever later locators match.
C1_FirstAcceptingWins ==
    AfterHead =>
        \A l \in Locators :
            (Yields(inp.page, l) /\ \A k \in 1..(l - 1) : ~Yields(inp.page, k))
                => (fromLoc = l /\ cands = Expected(inp.page, l))

\* C1 witness: the list came from LIVE_CHANNEL_CARDS although SEARCH_RESULT_CARDS
\* had a visible match and CHANNEL_CARDS would have yielded candidates too.
C1_Witness ==
    /\ AfterHead
    /\ fromLoc = 2
    /\ HasVisibleMatch(inp.page, 1)
    /\ Yields(inp.page, 3)

Stripped(p) ==
    LET cut == {i \in 1..Len(p) : p[i] \in {"?", "#"}}
    IN  IF cut = {} THEN p ELSE SubSeq(p, 1, (CHOOSE i \in cut : \A j \in cut : i <= j) - 1)

C4_IndexAtCountRaises ==
    (AfterHead /\ inp.index = Len(cands)) => (exc = "IndexError" /\ clicks = <<>>)

\* C4 amended: with at least one candidate, index = count fails with IndexError
\* and chooses and clicks nothing, and index = count - 1 does not fail with
\* IndexError: the last candidate is chosen, and any click of the call is on it.
\* With no candidate the call fails with the not-found failure of
\* get_streamer_elements, before the index is looked at.
C4_IndexRange ==
    /\ AfterHead =>
        /\ (Len(cands) >= 1 /\ inp.index = Len(cands)) =>
            (exc = "IndexError" /\ pc = "failed" /\ chosen = "none" /\ clicks = <<>>)
        /\ (Len(cands) >= 1 /\ inp.index = Len(cands) - 1) =>
            (exc = "none" /\ pc = "select_streamer.click" /\ chosen = cands[Len(cands)])
        /\ Len(cands) = 0 =>
            (exc = "NoStreamersFound" /\ pc = "failed" /\ chosen = "none" /\ clicks = <<>>)
    /\ AfterTail => \A i \in 1..Len(clicks) : clicks[i].el = chosen

\* C4 witness: two candidates and index 2.
C4_Witness ==
    /\ AfterHead
    /\ Len(cands) = 2
    /\ inp.index = 2
    /\ exc = "IndexError"

\* The operations of the scripted flow and the state each one leads to.
FlowStates ==
    [open |-> "Home", click_search_icon |-> "SearchOpened", search_for |-> "ResultsLoaded",
     select_streamer |-> "StreamerSelected", handle_modals |-> "ModalsHandled",
     verify_stream_loaded |-> "Verified"]

\* The flow states the current test has reached, in the order it reached them.
RECURSIVE Reached(_)
Reached(tr) ==
    IF tr = <<>>
    THEN <<>>
    ELSE LET before == Reached(SubSeq(tr, 1, Len(tr) - 1))
             last == tr[Len(tr)]
         IN  IF last.exc = "none" /\ last.op \in DOMAIN FlowStates
             THEN Append(before, FlowStates[last.op])
             ELSE before

\* C5: in each test the operations start in the order of the script, each only
\* after every earlier one returned without raising; after an operation raised
\* no other runs and none runs twice; so Verified is reached only through Home,
\* SearchOpened, ResultsLoaded, StreamerSelected and ModalsHandled, in that order.
C5_FlowInOrder ==
    test \in 1..Len(Tests) =>
        /\ Len(trace) <= Len(Script(test))
        /\ \A i \in 1..Len(trace) :
            /\ trace[i].op = Script(test)[i]
            /\ i < Len(trace) => trace[i].exc = "none"
        /\ (trace # <<>> /\ trace[Len(trace)].exc # "none") => pc = "failed"
        /\ (Len(Reached(trace)) > 0 /\ Reached(trace)[Len(Reached(trace))] = "Verified") =>
            Reached(trace) = <<"Home", "SearchOpened", "ResultsLoaded", "StreamerSelected",
                               "ModalsHandled", "Verified">>

\* C5 witness: the scripted flow went through to Verified and the test passed.
C5_Witness ==
    /\ test = 1
    /\ pc = "passed"
    /\ Len(Reached(trace)) = 6

\* C6: handle_modals never raises, whatever each of the three modals does; all
\* three are probed, in order, even when a step of an earlier one failed; and
\* with no modal present nothing is clicked.
C6_ModalsBestEffort ==
    inp.op = "handle_modals" =>
        /\ exc = "none"
        /\ pc = "verify_stream_loaded"
        /\ probes = ModalLocators
        /\ (\A m \in 1..Len(ModalLocators) : inp.cases[m] = "absent") => clicks = <<>>
        /\ \A i \in 1..Len(clicks) :
            \E m \in 1..Len(ModalLocators) :
                clicks[i].el = ModalLocators[m] /\ inp.cases[m] \in {"dismissed", "lingers"}

\* C6 witness: probing the first modal raised, the click on the second failed,
\* and the third was still probed and dismissed.
C6_Witness ==
    /\ inp.op = "handle_modals"
    /\ inp.cases[1] = "probe_error"
    /\ inp.cases[2] = "click_fails"
    /\ inp.cases[3] = "dismissed"
    /\ clicks = <<[el |-> "CLOSE_MODAL_BUTTON", by |-> "click"]>>

\* C7: once select_streamer has clicked the chosen candidate it returns exactly
\* when the URL read after the click differs from the one recorded before it,
\* whether or not the new URL holds the expected channel; with no change it fails
\* with TimeoutException, which is neither the not-found failure nor IndexError.
C7_UrlChangeDecides ==
    (AfterTail /\ clicks # <<>>) =>
        /\ exc = "none" <=> inp.new_url # inp.old_url
        /\ inp.new_url = inp.old_url =>
            (exc = "TimeoutException" /\ exc \notin {"NoStreamersFound", "IndexError"})
        /\ url = inp.new_url

\* C7 witness: the click led to another channel than the expected one, and
\* select_streamer returned with a warning.
C7_Witness ==
    /\ AfterTail
    /\ clicks # <<>>
    /\ exc = "none"
    /\ warns = <<"expected_channel">>

\* The channel name a reader expects select_streamer to look for in the new URL.
ExpectedChannelOf(e) ==
    CASE e = "aGood" -> <<"a", "b">>
      [] e = "aRel" -> <<"c", "d", "?", "x", "=", "1", "#", "y">>
      [] e = "bCard" -> <<"k", "l">>

\* C8 as stated: when the click was performed and the URL did not change within
\* the wait, select_streamer still returns and the flow goes on to handle_modals.
C8_TimeoutIsSoft ==
    (AfterTail /\ clicks # <<>> /\ inp.new_url = inp.old_url) =>
        (exc = "none" /\ pc = "handle_modals")

\* C8 amended: the soft check is the one on the new URL: when the URL changed
\* but does not hold the expected channel, a warning is printed, select_streamer
\* returns and the flow goes on to handle_modals; when the URL did not change
\* within the wait, select_streamer raises TimeoutException and the test fails
\* there, without a warning.
C8_MismatchIsSoft ==
    (AfterTail /\ clicks # <<>>) =>
        IF inp.new_url = inp.old_url
        THEN exc = "TimeoutException" /\ pc = "failed" /\ warns = <<>>
        ELSE /\ pc = "handle_modals"
             /\ warns # <<>> <=> ~Contains(UrlText(inp.new_url), ExpectedChannelOf(chosen))

\* C8 witness: after a click that led to another channel than the expected one
\* the flow ran handle_modals and verify_stream_loaded.
C8_Witness ==
    /\ test = 1
    /\ pc = "assert_url"
    /\ chosen = "aGood"
    /\ url = "channel_kl"

\* C9: get_streamer_elements raises its not-found failure, after the
\* no_streamers_found screenshot, exactly when none of the four locators yields
\* an accepted candidate; the list it returns otherwise is never empty.
C9_NotFoundIffNoneYields ==
    AfterHead =>
        /\ exc = "NoStreamersFound" <=> \A l \in Locators : ~Yields(inp.page, l)
        /\ exc = "NoStreamersFound" => (shots = <<"no_streamers_found">> /\ cands = <<>>)
        /\ exc # "NoStreamersFound" => (cands # <<>> /\ shots = <<>>)

\* C9 witness: not-found although two locators had visible matches.
C9_Witness ==
    /\ AfterHead
    /\ exc = "NoStreamersFound"
    /\ HasVisibleMatch(inp.page, 1)
    /\ HasVisibleMatch(inp.page, 4)

\* C10: a hard failure inside a page-object method (search button not found, no
\* streamer elements, index out of range, a wait that times out) ends the call
\* of the test with that exception; and every test that failed has had its
\* teardown screenshot asked for by the time the next test starts.
C10_FailuresPropagate ==
    /\ (inp.op = "click_search_icon"
            /\ (\A k \in 1..Len(SearchLocators) : ~inp.vis[k]) /\ inp.fallback = "absent")
        => (pc = "failed" /\ exc = "SearchButtonNotFound")
    /\ (inp.op = "search_for" /\ ~(inp.inputVisible /\ inp.resultsVisible))
        => (pc = "failed" /\ exc = "TimeoutException")
    /\ (AfterHead /\ \A l \in Locators : ~Yields(inp.page, l))
        => (pc = "failed" /\ exc = "NoStreamersFound")
    /\ (AfterHead /\ (\E l \in Locators : Yields(inp.page, l)) /\ inp.index >= Len(cands))
        => (pc = "failed" /\ exc = "IndexError")
    /\ (AfterTail /\ inp.new_url = inp.old_url)
        => (pc = "failed" /\ exc # "none")
    /\ (pc = "failed" /\ trace # <<>>) => exc = trace[Len(trace)].exc
    /\ test \in 1..(Len(Tests) + 1) => Len(finished) = test - 1
    /\ \A i \in 1..Len(finished) :
        /\ finished[i].test = Tests[i]
        /\ finished[i].outcome = "failed" => finished[i].shot \in {"saved", "save_failed"}

\* C10 witness: the first test failed on a wait that timed out, the screenshot
\* was asked for (and could not be saved), and the second test has started.
C10_Witness ==
    /\ test = 2
    /\ pc = "assert_title"
    /\ finished = <<[test |-> "test_twitch_starcraft_stream", outcome |-> "failed",
                     shot |-> "save_failed"]>>

\* The waits and look-ups among the steps of an operation, and the clicks.
Waits == {"wait_visible", "wait_clickable", "wait_invisible", "wait_url",
          "find_elements", "find_present"}

Clicks == {"click", "script_click"}

\* Steps i and j of the last operation attempt the same kind of thing, a wait
\* or a click, on the same locator or element.
SameAttempt(i, j) ==
    /\ acts[i].el = acts[j].el
    /\ \/ acts[i].act \in Waits /\ acts[j].act \in Waits
       \/ acts[i].act \in Clicks /\ acts[j].act \in Clicks

\* No step of the last operation is taken twice on the same locator or element.
NothingTwice ==
    \A i, j \in DOMAIN acts :
        (acts[i].act = acts[j].act /\ acts[i].el = acts[j].el) => i = j

\* C11 as stated: within an operation nothing is attempted twice, and no wait
\* or click that failed is followed by another attempt at it.
C11_NoSecondAttempt ==
    /\ NothingTwice
    /\ \A i, j \in DOMAIN acts : (i < j /\ ~acts[i].ok) => ~SameAttempt(i, j)

\* C11 amended: within an operation each locator of a chain is looked up once
\* and no step is taken twice; a wait that failed is never followed by another
\* wait on the same locator; a click that failed is never followed by another
\* click, except in select_streamer, where a click on the chosen candidate that
\* raised is followed by exactly one script click on the same element, and a
\* script click that raised is followed by nothing.
C11_OneScriptClickAfterClick ==
    /\ NothingTwice
    /\ \A i, j \in DOMAIN acts :
        (i < j /\ ~acts[i].ok /\ SameAttempt(i, j)) =>
            /\ inp.op = "select_streamer.click"
            /\ acts[i].act = "click" /\ acts[j].act = "script_click"
            /\ acts[i].el = chosen
            /\ j = i + 1
    /\ \A i \in DOMAIN acts : (acts[i].act = "script_click" /\ ~acts[i].ok) => i = Len(acts)
    /\ (inp.op = "select_streamer.click" /\ inp.case \in {"script_click", "click_fails"}) =>
        \E i \in DOMAIN acts :
            /\ acts[i].act = "click" /\ acts[i].el = chosen /\ ~acts[i].ok
            /\ i < Len(acts)
            /\ acts[i + 1].act = "script_click" /\ acts[i + 1].el = chosen

\* C11 witness: in select_streamer the click raised, the script click on the
\* same element went through and the URL changed.
C11_Witness ==
    /\ inp.op = "select_streamer.click"
    /\ inp.case = "script_click"
    /\ exc = "none"
    /\ \E i \in DOMAIN acts : acts[i].act = "click" /\ ~acts[i].ok

\* C12: in a session one driver is created, by the setup of the session
\* fixture; it is the driver of every test, and the tests run one after the
\* other; it is live while tests run and is quit exactly once, in the
\* fixture's teardown after the last test, whatever the outcomes of the tests.
C12_OneDriverPerSession ==
    /\ instance = 0
    /\ pc = "session_start" => (drivers = <<>> /\ driver = 0 /\ finished = <<>>)
    /\ pc # "session_start" => (Len(drivers) = 1 /\ driver = 1)
    /\ pc \notin {"session_start", "session_done"} => drivers[1].quits = 0
    /\ pc = "session_end" => test = Len(Tests) + 1
    /\ pc = "session_done" =>
        /\ drivers[1].quits = 1
        /\ Len(finished) = Len(Tests)
        /\ \A i \in 1..Len(Tests) : finished[i].test = Tests[i]

\* C12 witness: the session is over after a failed, a passed and a failed
\* test, and the one driver has been quit.
C12_Witness ==
    /\ pc = "session_done"
    /\ finished[1].outcome = "failed"
    /\ finished[2].outcome = "passed"
    /\ finished[3].outcome = "failed"
    /\ drivers = <<[via |-> "create_driver", quits |-> 1]>>

\* The locator of click_search_icon that was clicked, 0 when none was.
ClickedLocator ==
    IF clicks # <<>> /\ clicks[1].by = "click"
    THEN CHOOSE k \in 1..Len(SearchLocators) : SearchLocators[k] = clicks[1].el
    ELSE 0

\* Resolution by visibility in click_search_icon's chain, get_streamer_elements
\* and verify_stream_loaded: a locator that is clicked is visible and every
\* locator before it is not; with no locator visible none is clicked; every
\* candidate of a link locator is displayed and every candidate of
\* SEARCH_RESULT_CARDS is the ancestor of a displayed image; the stream counts
\* as loaded only on a visible video or a visible player container.
VisibleResolves ==
    /\ inp.op = "click_search_icon" =>
        /\ ClickedLocator # 0 =>
            /\ inp.dom[ClickedLocator] = "visible"
            /\ \A k \in 1..(ClickedLocator - 1) : inp.dom[k] # "visible"
        /\ (\A k \in 1..Len(SearchLocators) : inp.dom[k] # "visible") => ClickedLocator = 0
    /\ AfterHead =>
        \A i \in 1..Len(cands) :
            IF fromLoc = 1
            THEN \E j \in 1..Len(inp.page[1]) :
                    Displayed(inp.page[1][j]) /\ Parent(inp.page[1][j]) = cands[i]
            ELSE Displayed(cands[i])
    /\ inp.op = "verify_stream_loaded" =>
        (exc = "none" <=>
            (inp.video = "visible" \/ (inp.video \in {"timeout", "hidden"} /\ inp.container)))

\* C13 as stated: every resolution other than the probing of modals succeeds
\* only on a visible element, so every click of click_search_icon is on a
\* visible element; and the probing of modals is by presence, so a modal that
\* is present but not displayed is clicked.
C13_VisibleExceptModalProbe ==
    /\ VisibleResolves
    /\ (inp.op = "click_search_icon" /\ clicks # <<>>) => inp.fallback # "clicked_hidden"
    /\ inp.op = "handle_modals" =>
        \A m \in 1..Len(ModalLocators) :
            inp.cases[m] = "hidden" =>
                \E i \in DOMAIN acts : acts[i].act = "click" /\ acts[i].el = ModalLocators[m]

\* C13 amended: click_search_icon's locator chain, get_streamer_elements and
\* verify_stream_loaded resolve by visibility, and so does the probing of
\* modals: a modal that is present but not displayed is treated as absent and
\* never clicked.  The one look-up by presence that yields a click target is
\* the last resort of click_search_icon: with no locator visible, the first
\* element whose text contains Browse is script-clicked whether or not it is
\* displayed.
C13_VisibleExceptBrowseText ==
    /\ VisibleResolves
    /\ (inp.op = "click_search_icon" /\ \A k \in 1..Len(SearchLocators) : inp.dom[k] # "visible") =>
        /\ inp.fallback \in {"clicked", "clicked_hidden"} =>
            (exc = "none" /\ clicks = <<[el |-> "BrowseText", by |-> "script"]>>)
        /\ inp.fallback \notin {"clicked", "clicked_hidden"} => (exc # "none" /\ clicks = <<>>)
    /\ inp.op = "handle_modals" =>
        \A m \in 1..Len(ModalLocators) :
            /\ inp.cases[m] \in {"hidden", "absent"} =>
                \A i \in DOMAIN acts :
                    acts[i].el = ModalLocators[m] => (acts[i].act = "wait_visible" /\ ~acts[i].ok)
            /\ (\E i \in DOMAIN acts : acts[i].act = "click" /\ acts[i].el = ModalLocators[m]) =>
                inp.cases[m] \in {"dismissed", "click_fails", "lingers"}

\* C13 witness: every locator of click_search_icon is absent or hidden, and the
\* element with the text Browse, which is not displayed, is script-clicked.
C13_Witness ==
    /\ inp.op = "click_search_icon"
    /\ inp.dom[1] = "hidden"
    /\ inp.dom[4] = "hidden"
    /\ inp.fallback = "clicked_hidden"
    /\ exc = "none"
    /\ clicks = <<[el |-> "BrowseText", by |-> "script"]>>

\* What follows the last occurrence of p in s; s itself when p is not in s.
AfterLast(s, p) ==
    LET at == {i \in 1..Len(s) : i + Len(p) - 1 <= Len(s) /\ SubSeq(s, i, i + Len(p) - 1) = p}
    IN  IF at = {} THEN s
        ELSE LET m == CHOOSE i \in at : \A j \in at : j <= i
             IN  SubSeq(s, m + Len(p), Len(s))

\* What follows the first occurrence of p in s, p being in s.
AfterFirst(s, p) ==
    LET at == {i \in 1..Len(s) : i + Len(p) - 1 <= Len(s) /\ SubSeq(s, i, i + Len(p) - 1) = p}
        m == CHOOSE i \in at : \A j \in at : i <= j
    IN  SubSeq(s, m + Len(p), Len(s))

\* The characters of s before the first one of `stops`.
RECURSIVE UpTo(_, _)
UpTo(s, stops) ==
    IF s = <<>> \/ Head(s) \in stops THEN <<>>
    ELSE <<Head(s)>> \o UpTo(Tail(s), stops)

\* The characters of s before the first one of `stops` or the next live_user_.
RECURSIVE UpToNext(_, _)
UpToNext(s, stops) ==
    IF s = <<>> \/ Head(s) \in stops \/ StartsWith(s, LIVE_USER) THEN <<>>
    ELSE <<Head(s)>> \o UpToNext(Tail(s), stops)

Extracted == pc = "returned" /\ inp.op = "extract"

\* C14 as stated: an element with an href yields the href itself when it
\* starts with '/', otherwise what follows the last 'twitch.tv'; an element
\* without href whose image src contains 'live_user_' yields '/' and the token
\* up to the next '-' or '.'; every other case, an error while reading the
\* image included, yields '' and nothing is raised.
C14_ExtractAsStated ==
    Extracted /\ inp.fault # "href" =>
        /\ exc = "none"
        /\ ret = IF inp.href # <<>>
                 THEN IF StartsWith(inp.href, <<"/">>) THEN inp.href
                      ELSE AfterLast(inp.href, TWITCH_TV)
                 ELSE IF inp.fault = "none" /\ inp.imgs # <<>> /\ Contains(inp.imgs[1], LIVE_USER)
                 THEN <<"/">> \o UpTo(AfterFirst(inp.imgs[1], LIVE_USER), {"-", "."})
                 ELSE <<>>

\* C14 amended: an error while reading href is raised; otherwise nothing is
\* raised and the result is the href when it starts with '/', what follows the
\* last 'twitch.tv' when the href contains it, and for an element without href
\* or with an href of neither kind '/' and the token of the first image whose
\* src contains 'live_user_', that token ending at the next 'live_user_', '-'
\* or '.'; '' in every other case, an error while reading the image included.
C14_ExtractChannel ==
    Extracted =>
        IF inp.fault = "href" THEN exc # "none"
        ELSE /\ exc = "none"
             /\ ret = IF inp.href # <<>> /\ StartsWith(inp.href, <<"/">>) THEN inp.href
                      ELSE IF inp.href # <<>> /\ Contains(inp.href, TWITCH_TV)
                      THEN AfterLast(inp.href, TWITCH_TV)
                      ELSE IF inp.fault = "none" /\ inp.imgs # <<>>
                              /\ Contains(inp.imgs[1], LIVE_USER)
                      THEN <<"/">> \o UpToNext(AfterFirst(inp.imgs[1], LIVE_USER), {"-", "."})
                      ELSE <<>>

\* C14 witness: an element whose href is of neither kind and whose image
\* names a channel was given, and the channel of the image came back.
C14_Witness ==
    /\ Extracted
    /\ inp.fault = "none"
    /\ inp.href = H_FOREIGN
    /\ inp.imgs # <<>>
    /\ ret = <<"/", "k", "l">>

\* The handles get_streamer_elements may return.
Handles == Links \cup Images \cup Buttons

C16_AssertionWhenNotVisible ==
    test = 3 /\ inp.op = "assert_search_input" =>
        /\ inp.inputVisible => exc = "none" /\ pc = "passed"
        /\ ~inp.inputVisible => exc = "AssertionError" /\ pc = "failed"

\* The place of a locator of click_search_icon in its chain; 0 for any other
\* element.
RankOf(el) ==
    IF \E k \in 1..Len(SearchLocators) : SearchLocators[k] = el
    THEN CHOOSE k \in 1..Len(SearchLocators) : SearchLocators[k] = el
    ELSE 0

\* C17: click_search_icon makes at most one click; the click is on the first
\* visible locator of the chain; the element with the text Browse is
\* script-clicked only when no locator is visible; and when nothing is found or
\* the click fails, a screenshot is taken and the error raised, no locator
\* after the chosen one being tried.
C17_OneClickFirstVisible ==
    inp.op = "click_search_icon" =>
        LET seen == {k \in 1..Len(SearchLocators) : inp.dom[k] = "visible"}
            pressed == {i \in DOMAIN acts : acts[i].act \in {"click", "script_click"}}
        IN  /\ Cardinality(pressed) <= 1
            /\ Len(clicks) <= 1
            /\ \A i \in DOMAIN acts :
                  /\ RankOf(acts[i].el) > 0 /\ acts[i].act # "wait_visible"
                        => RankOf(acts[i].el) \in seen
                           /\ \A j \in seen : RankOf(acts[i].el) <= j
                  /\ RankOf(acts[i].el) > 0 => \A j \in seen : RankOf(acts[i].el) <= j
                  /\ acts[i].el = "BrowseText" => seen = {}
                  /\ acts[i].act = "script_click" => acts[i].el = "BrowseText"
            /\ \A i \in DOMAIN clicks :
                  IF seen = {}
                  THEN clicks[i] = [el |-> "BrowseText", by |-> "script"]
                  ELSE clicks[i].by = "click" /\ RankOf(clicks[i].el) \in seen
                       /\ \A j \in seen : RankOf(clicks[i].el) <= j
            /\ (seen # {} /\ inp.click # "none") \/ (seen = {} /\ inp.fallback \in {"absent", "raises"})
                  => exc # "none" /\ shots = <<"search_button_not_found">> /\ clicks = <<>>
            /\ (seen # {} /\ inp.click = "none") \/ (seen = {} /\ inp.fallback \notin {"absent", "raises"})
                  => exc = "none" /\ shots = <<>> /\ Len(clicks) = 1

\* C17 witness: the first and the fourth locator are visible, the click on the
\* first raised, and click_search_icon raised with its screenshot taken.
C17_Witness ==
    /\ inp.op = "click_search_icon"
    /\ inp.dom[1] = "visible"
    /\ inp.dom[4] = "visible"
    /\ inp.click = "ElementClickInterceptedException"
    /\ exc = "ElementClickInterceptedException"
    /\ shots = <<"search_button_not_found">>
    /\ clicks = <<>>

\* C18: verify_stream_loaded returns normally exactly when the video is found
\* visible or, the video found not visible, the player container is; whether
\* the video plays, is paused or the paused check fails makes no difference;
\* in every other case a screenshot is taken and the error raised.
C18_LoadedIffPlayerVisible ==
    inp.op = "verify_stream_loaded" =>
        LET loaded == \/ inp.video = "visible"
                      \/ inp.video \in {"timeout", "hidden"} /\ inp.container
        IN  /\ loaded <=> exc = "none"
            /\ loaded => shots = <<>>
            /\ ~loaded => shots # <<>> /\ pc = "failed"
            /\ \A i \in DOMAIN acts :
                  acts[i].act = "paused_check" => exc = "none" /\ shots = <<>>

\* C18 witness: the video is visible, the paused check fails with an error,
\* and verify_stream_loaded returns normally.
C18_Witness ==
    /\ inp.op = "verify_stream_loaded"
    /\ inp.video = "visible"
    /\ inp.playing = "error"
    /\ \E i \in DOMAIN acts : acts[i].act = "paused_check" /\ ~acts[i].ok
    /\ exc = "none"
    /\ shots = <<>>

ModalHandled == pc = "returned" /\ inp.op = "handle_modal_if_present"

LiveFromGet == {d \in DOMAIN drivers : drivers[d].via = "get_driver" /\ drivers[d].quits = 0}

\* C20: after any sequence of calls at most one driver made through get_driver
\* is live; get_driver returns the stored instance until quit_driver is called
\* and makes a fresh one after it; quit_driver quits the stored instance once
\* and clears it, and does nothing when there is none; create_driver neither
\* reads nor changes the stored instance.
C20_Singleton ==
    inp.op = "factory" =>
        /\ Cardinality(LiveFromGet) <= 1
        /\ LiveFromGet = IF instance = 0 THEN {} ELSE {instance}
        /\ \A d \in DOMAIN drivers : drivers[d].quits <= 1
        /\ \A i \in DOMAIN calls :
              LET c == calls[i]
                  none == [d \in DOMAIN c.quit |-> 0]
              IN  /\ c.op = "get_driver" =>
                        /\ c.ret # 0 /\ c.after = c.ret /\ c.quit = none
                        /\ c.before # 0 => c.ret = c.before /\ c.made = 0
                        /\ c.before = 0 => /\ c.made = 1
                                           /\ \A j \in 1..(i - 1) : calls[j].ret # c.ret
                  /\ c.op = "quit_driver" =>
                        /\ c.after = 0 /\ c.made = 0
                        /\ c.quit = [d \in DOMAIN c.quit |-> IF d = c.before THEN 1 ELSE 0]
                  /\ c.op = "create_driver" =>
                        /\ c.after = c.before /\ c.made = 1 /\ c.quit = none
                        /\ c.ret # c.after
                        /\ \A j \in 1..(i - 1) : calls[j].ret # c.ret
                        /\ drivers[c.ret].via = "create_driver"
        /\ \A i, j \in DOMAIN calls :
              /\ i < j /\ calls[i].op = "get_driver" /\ calls[j].op = "get_driver"
              /\ \A k \in i..j : calls[k].op # "quit_driver"
              => calls[j].ret = calls[i].ret

\* C20 witness: get_driver twice, quit_driver twice, get_driver once more: the
\* first two calls gave the same driver, it was quit once, and the last call
\* gave another.
C20_Witness ==
    /\ inp.op = "factory"
    /\ Len(calls) = 5
    /\ [i \in 1..5 |-> calls[i].op]
          = <<"get_driver", "get_driver", "quit_driver", "quit_driver", "get_driver">>
    /\ calls[2].ret = calls[1].ret
    /\ drivers[calls[1].ret].quits = 1
    /\ calls[5].ret # calls[1].ret
    /\ instance = calls[5].ret

\* C21 as stated: for any index below 0 or at or above the number of
\* candidates select_streamer raises IndexError, and no element is chosen,
\* scrolled to or clicked.
C21_OutsideRangeRaises ==
    (AfterHead /\ cands # <<>> /\ (inp.index < 0 \/ inp.index >= Len(cands))) =>
        /\ exc = "IndexError"
        /\ pc = "failed"
        /\ chosen = "none"
        /\ clicks = <<>>
        /\ \A i \in DOMAIN acts : acts[i].act \notin {"scroll_into_view", "click", "script_click"}

\* C21 amended: with candidates found, an index at or above their number, or
\* below minus their number, raises IndexError and no element is chosen,
\* scrolled to or clicked; an index from minus their number to -1 counts from
\* the end of the list and that candidate is chosen, the call going on to
\* scroll to it and click it.
C21_IndexCountsFromEnd ==
    /\ (AfterHead /\ cands # <<>>) =>
          LET n == Len(cands)
          IN  IF inp.index >= n \/ inp.index < 0 - n
              THEN /\ exc = "IndexError"
                   /\ pc = "failed"
                   /\ chosen = "none"
                   /\ clicks = <<>>
                   /\ \A i \in DOMAIN acts :
                         acts[i].act \notin {"scroll_into_view", "click", "script_click"}
              ELSE /\ exc = "none"
                   /\ pc = "select_streamer.click"
                   /\ chosen = cands[IF inp.index >= 0 THEN inp.index + 1 ELSE n + inp.index + 1]
    /\ AfterTail =>
          /\ chosen # "none"
          /\ \A i \in DOMAIN acts :
                acts[i].act \in {"scroll_into_view", "click", "script_click"} => acts[i].el = chosen

\* C21 witness: one candidate and index -2, which is below minus the number of
\* candidates: IndexError.
C21_Witness ==
    /\ AfterHead
    /\ Len(cands) = 1
    /\ inp.index = 0 - 2
    /\ exc = "IndexError"
    /\ chosen = "none"

\* The locators find_elements was called with in the first half of
\* select_streamer.
TriedLocators ==
    {l \in Locators :
        \E i \in DOMAIN acts : acts[i].act = "find_elements" /\ acts[i].el = LocatorName(l)}

\* C22: the list get_streamer_elements returns is the list accepted under one
\* locator, the last one tried, with nothing of another locator's in it; a
\* locator whose matches could not be examined to the end gives no list, what
\* it had accepted is dropped, and the next locator is tried.
C22_OneLocatorOnly ==
    AfterHead =>
        /\ fromLoc # 0 =>
              /\ ~HasStale(inp.page[fromLoc])
              /\ cands = Expected(inp.page, fromLoc)
              /\ TriedLocators = 1..fromLoc
        /\ fromLoc = 0 => cands = <<>> /\ TriedLocators = Locators
        /\ \A l \in TriedLocators :
              HasStale(inp.page[l]) =>
                  /\ fromLoc # l
                  /\ l < 4 => (l + 1) \in TriedLocators

\* C22 witness: under LIVE_CHANNEL_CARDS a candidate was accepted before a
\* stale element was met; the list returned is that of CHANNEL_CARDS alone.
C22_Witness ==
    /\ AfterHead
    /\ inp.page[2] = <<"aGood", "aStale">>
    /\ inp.page[3] = <<"aRel">>
    /\ fromLoc = 3
    /\ cands = <<"aRel">>

============================================================================
